---- MODULE Spec2Model ----
(***************************************************************************)
(* Live commentary pipeline of nbastats.fun: the feed handler              *)
(* api_beta_live_feed (src/app.py), the message generator                  *)
(* generate_messages_from_play (src/balldontlie_live.py), the per-player   *)
(* ledger and milestone detector (src/app.py) and the daemon's cache       *)
(* warming (src/live_daemon.py), for one game identifier.                  *)
(***************************************************************************)
EXTENDS Integers, Sequences, FiniteSets, TLC

VARIABLES
    plays,         \* upstream play-by-play of the game, sorted by order
    gstatus,       \* upstream game object: "Pre", "Live" or "Final"
    disk,          \* cache/dev_live_history/game_<id>.json
    hist,          \* _dev_live_history[game_id]
    leadChanges,   \* _dev_live_lead_changes[game_id]
    largestLeads,  \* _dev_live_largest_leads[game_id]
    playerStats,   \* _dev_live_player_stats[game_id]
    announced,     \* _dev_live_announced_milestones[game_id]
    viewers,       \* _dev_live_viewers[game_id]
    reqs,          \* number of feed requests served so far
    emitted,       \* milestone messages produced so far, per milestone key
    obs,           \* what the last operation did and returned
    fs,            \* the history directory: inodes and the names bound to them
    wr,            \* the saves in progress, one per writer
    daemon,        \* the daemon's cache warming in progress
    refine,        \* _refinement_cache and the last call of the refinement
    writable,      \* the history directory accepts writes
    parked,        \* the dict entries and the file of the other game
    tracker,       \* _player_game_stats[game_id]
    loop,          \* the locals of run_daemon's main loop, and its clock
    recent,        \* the games of recent_games.json and the last update of it
    polling        \* a client that passes back the last_action it was returned

vars == <<plays, gstatus, disk, hist, leadChanges, largestLeads, playerStats,
          announced, viewers, reqs, emitted, obs, fs, wr, daemon, refine,
          writable, parked, tracker, loop, recent, polling>>

envVars == <<plays, gstatus>>
memVars == <<hist, leadChanges, largestLeads, playerStats, announced, viewers>>
sideVars == <<refine, writable, parked, tracker, loop, recent, polling>>
auxVars == <<daemon, sideVars>>
ioVars == <<fs, wr, auxVars>>

----------------------------------------------------------------------------
(* Bounds of the model *)

MaxPlays == 2
MaxReqs == 3
MaxBaskets == 6
MaxRally == 3

(* Bounds of the ledger specification *)
MaxPts == 12
MaxReb == 14
MaxAst == 11

Clients == {"c1"}
Players == {"A", "B"}
HOME == "HOM"
AWAY == "AWY"

----------------------------------------------------------------------------
(* Small helpers *)

Max2(a, b) == IF a >= b THEN a ELSE b

Abs(x) == IF x < 0 THEN -x ELSE x

Range(s) == {s[i] : i \in 1..Len(s)}

RECURSIVE SeqSum(_)
SeqSum(s) == IF s = <<>> THEN 0 ELSE Head(s) + SeqSum(Tail(s))

----------------------------------------------------------------------------
(* Plays of the upstream feed.  type and text are the provider's strings;  *)
(* the code only tests them for substrings, listed in Substrings.          *)

Substrings ==
    [ jump_shot   |-> {"shot"},
      layup       |-> {"layup"},
      dunk        |-> {"dunk"},
      block       |-> {"block"},
      rebound     |-> {"rebound"},
      steal       |-> {"steal"},
      end_period  |-> {"end", "period"},
      makes       |-> {"makes"},
      makes_ast   |-> {"makes", "assist"},
      blocks      |-> {"blocks", "block"},
      rebounds    |-> {"rebound"},
      steals      |-> {"steal", "steals"},
      end_of      |-> {"end"} ]

Has(s, w) == w \in Substrings[s]

\* a play template: everything of a play except order, period and scores
Template(type, text, side, player, assist, scoring, value) ==
    [type |-> type, text |-> text, side |-> side, player |-> player,
     assist |-> assist, scoring_play |-> scoring, score_value |-> value]

Home3     == Template("jump_shot", "makes", "home", "A", "", TRUE, 3)
Home2     == Template("layup", "makes", "home", "A", "", TRUE, 2)
Away2Dunk == Template("dunk", "makes", "away", "B", "", TRUE, 2)
BlockA    == Template("block", "blocks", "home", "A", "", FALSE, 0)
EndPeriod == Template("end_period", "end_of", "", "", "", FALSE, 0)

ReboundA  == Template("rebound", "rebounds", "home", "A", "", FALSE, 0)
Away2Ast  == Template("layup", "makes_ast", "away", "B", "A", TRUE, 2)

\* the plays of a game, of one scorer's game, of a game of baskets traded,
\* and of one player's stat line
FeedTemplates == {Home3, Home2, Away2Dunk, BlockA, EndPeriod}
ScorerTemplates == {Home3}
RallyTemplates == {Home3, Home2, Away2Dunk}
LedgerTemplates == {Home2, ReboundA, Away2Ast}

LastHome(ps) == IF ps = <<>> THEN 0 ELSE ps[Len(ps)].home_score
LastAway(ps) == IF ps = <<>> THEN 0 ELSE ps[Len(ps)].away_score

\* period in play: one more than the number of period ends before it
PeriodAfter(ps) ==
    1 + Cardinality({i \in 1..Len(ps) : ps[i].type = "end_period"})

\* the next play of the feed built from template t
NextPlay(ps, t) ==
    [order |-> Len(ps) + 1,
     period |-> PeriodAfter(ps),
     home_score |-> LastHome(ps) + (IF t.side = "home" THEN t.score_value ELSE 0),
     away_score |-> LastAway(ps) + (IF t.side = "away" THEN t.score_value ELSE 0),
     type |-> t.type, text |-> t.text, player |-> t.player, assist |-> t.assist,
     scoring_play |-> t.scoring_play, score_value |-> t.score_value]

\* extract_player_from_text: the name at the start of the text, or ''
extract_player_from_text(play) == play.player

----------------------------------------------------------------------------
(* Per-player ledger: track_player_stats_from_play *)

NoStats == [present |-> FALSE, by |-> <<>>]

ZeroLedger == [pts |-> 0, reb |-> 0, ast |-> 0, blk |-> 0, stl |-> 0]

\* the ledger dict with player p present (initialised to zeros if new)
WithPlayer(by, p) ==
    IF p \in DOMAIN by THEN by
    ELSE [q \in (DOMAIN by) \cup {p} |-> IF q = p THEN ZeroLedger ELSE by[q]]

\* a credit that keeps only what the play itself adds
LastCredit(led, play) ==
    [led EXCEPT
       !.pts = IF play.scoring_play THEN play.score_value ELSE 0,
       !.reb = IF Has(play.type, "rebound") THEN 1 ELSE 0,
       !.blk = IF Has(play.type, "block") THEN 1 ELSE 0,
       !.stl = IF Has(play.type, "steal") THEN 1 ELSE 0]

\* the counters of the acting player after the play
OwnCredit(led, play) ==
    [led EXCEPT
       !.pts = @ + (IF play.scoring_play THEN play.score_value ELSE 0),
       !.reb = @ + (IF Has(play.type, "rebound") THEN 1 ELSE 0),
       !.blk = @ + (IF Has(play.type, "block") THEN 1 ELSE 0),
       !.stl = @ + (IF Has(play.type, "steal") THEN 1 ELSE 0)]

\* the 'assisted by <Name>' credit: one assist for the named player
AssistCredit(by, play) ==
    IF Has(play.text, "assist") /\ play.assist # ""
    THEN LET b1 == WithPlayer(by, play.assist)
         IN  [b1 EXCEPT ![play.assist].ast = @ + 1]
    ELSE by

\* a tracking that opens an entry under whatever name the text yields
TrackUnnamed(stats, play) ==
    LET player == extract_player_from_text(play)
        b1 == WithPlayer(stats.by, player)
        b2 == [b1 EXCEPT ![player] = OwnCredit(@, play)]
    IN  [stats |-> [present |-> TRUE, by |-> AssistCredit(b2, play)],
         player |-> player]

\* returns the new ledgers and the tracked player ('' when none resolves)
TrackPlayerStats(stats, play) ==
    LET player == extract_player_from_text(play)
    IN  IF player = ""
        THEN [stats |-> [present |-> TRUE, by |-> stats.by], player |-> ""]
        ELSE LET b1 == WithPlayer(stats.by, player)
                 b2 == [b1 EXCEPT ![player] = OwnCredit(@, play)]
                 b3 == AssistCredit(b2, play)
             IN  [stats |-> [present |-> TRUE, by |-> b3], player |-> player]

\* track_player_stats_from_play over a list of plays, in order
RECURSIVE TrackAll(_, _)
TrackAll(stats, ps) ==
    IF ps = <<>> THEN stats
    ELSE TrackAll(TrackPlayerStats(stats, Head(ps)).stats, Tail(ps))

----------------------------------------------------------------------------
(* Milestone detector: check_stat_milestones, check_big_lead_milestone *)

CategoryMin == 10
LargestLeadMin == 5
BigLeadMin == 20
ScoringTiers == {30, 40, 50, 60}
DefensiveTiers == {5, 10, 15, 20}
BigLeadTiers == {30, 25, 20}

NoAnnounced == [present |-> FALSE, keys |-> {}]

SetMin(S) == CHOOSE x \in S : \A y \in S : x <= y
SetMax(S) == CHOOSE x \in S : \A y \in S : x >= y

\* generate_historian_milestone_message: a historian message of type
\* milestone; its text names the milestone
HistorianMessage(key) ==
    [action_number |-> 0, bot |-> "historian", type |-> "milestone", tag |-> key]

\* for threshold in tiers (ascending): the first tier reached and not yet
\* announced is announced, then the loop breaks
TierKeys(player, stat, value, tiers, keys) ==
    LET open == {t \in tiers : value >= t /\ <<player, stat, t>> \notin keys}
    IN  IF open = {} THEN <<>> ELSE << <<player, stat, SetMin(open)>> >>

TripleDoubleKeys(player, led, keys) ==
    LET categories_10 ==
            Cardinality({c \in {"pts", "reb", "ast"} : led[c] >= CategoryMin})
    IN  IF categories_10 >= 3 /\ <<player, "triple_double", 0>> \notin keys
        THEN << <<player, "triple_double", 0>> >> ELSE <<>>

DoubleDoubleKeys(player, led, keys) ==
    LET categories_10 ==
            Cardinality({c \in {"pts", "reb", "ast"} : led[c] >= CategoryMin})
        categories_10_dd ==
            Cardinality({c \in {"pts", "reb", "ast", "blk", "stl"} :
                            led[c] >= CategoryMin})
    IN  IF categories_10_dd >= 2 /\ categories_10 < 3
           /\ <<player, "double_double", 0>> \notin keys
        THEN << <<player, "double_double", 0>> >> ELSE <<>>

\* the milestone keys newly announced by one check, in message order
NewMilestoneKeys(player, led, keys) ==
    TripleDoubleKeys(player, led, keys)
    \o DoubleDoubleKeys(player, led, keys)
    \o TierKeys(player, "pts", led.pts, ScoringTiers, keys)
    \o TierKeys(player, "blk", led.blk, DefensiveTiers, keys)
    \o TierKeys(player, "stl", led.stl, DefensiveTiers, keys)

\* returns the messages and the announced set after the check
CheckStatMilestones(stats, ann, player) ==
    IF ~stats.present \/ player \notin DOMAIN stats.by
    THEN [msgs |-> <<>>, ann |-> ann]
    ELSE LET new == NewMilestoneKeys(player, stats.by[player], ann.keys)
         IN  [msgs |-> [i \in 1..Len(new) |-> HistorianMessage(new[i])],
              ann |-> [present |-> TRUE, keys |-> ann.keys \cup Range(new)]]

\* a big-lead check keyed by leading side and tier alone
CheckBigLeadPerGame(ann, home_score, away_score, period) ==
    LET lead_diff == Abs(home_score - away_score)
        leader == IF home_score > away_score THEN HOME ELSE AWAY
        key == <<leader, "lead", SetMax({t \in BigLeadTiers : lead_diff >= t}), 0>>
    IN  IF lead_diff >= BigLeadMin /\ key \notin ann.keys
        THEN [msgs |-> <<HistorianMessage(key)>>,
              ann |-> [present |-> TRUE, keys |-> ann.keys \cup {key}]]
        ELSE [msgs |-> <<>>, ann |-> [present |-> TRUE, keys |-> ann.keys]]

\* returns the big-lead message (if any) and the announced set
CheckBigLeadMilestone(ann, home_score, away_score, period) ==
    LET lead_diff == Abs(home_score - away_score)
        leader == IF home_score > away_score THEN HOME ELSE AWAY
        reached == {t \in BigLeadTiers : lead_diff >= t}
        a1 == [present |-> TRUE, keys |-> ann.keys]
    IN  IF lead_diff < BigLeadMin THEN [msgs |-> <<>>, ann |-> a1]
        ELSE LET key == <<leader, "lead", SetMax(reached), period>>
             IN  IF key \notin ann.keys
                 THEN [msgs |-> <<HistorianMessage(key)>>,
                       ann |-> [present |-> TRUE, keys |-> ann.keys \cup {key}]]
                 ELSE [msgs |-> <<>>, ann |-> a1]

\* the count of produced messages per milestone key, after producing msgs
Emit(em, msgs) ==
    LET new == {msgs[i].tag : i \in 1..Len(msgs)}
    IN  [k \in (DOMAIN em) \cup new |->
            (IF k \in DOMAIN em THEN em[k] ELSE 0)
            + Cardinality({i \in 1..Len(msgs) : msgs[i].tag = k})]

EmittedCount(k) == IF k \in DOMAIN emitted THEN emitted[k] ELSE 0

----------------------------------------------------------------------------
(* Message composer: generate_messages_from_play *)

\* a message before the caller stamps the play's order on it
Msg(bot, type, t1, t2, n) ==
    [action_number |-> 0, bot |-> bot, type |-> type, tag |-> <<t1, t2, n>>]

NoPlay == [present |-> FALSE, home_score |-> 0, away_score |-> 0]

AsPrev(play) ==
    [present |-> TRUE, home_score |-> play.home_score,
     away_score |-> play.away_score]

ZeroLeads == [home |-> 0, away |-> 0]

\* the if/elif chain on the play's category (the categories of FeedTemplates
\* and LedgerTemplates; no template is a free throw, turnover, miss, foul,
\* challenge, timeout or jump ball)
CategoryMessages(play, llm) ==
    LET player == extract_player_from_text(play)
    IN  IF play.scoring_play /\ play.score_value # 0
        THEN <<Msg("play_by_play", "score", "score", player, play.score_value)>>
             \o (IF Has(play.type, "dunk")
                 THEN <<Msg("hype_man", "hype", "POSTER", player, 0)>> ELSE <<>>)
        ELSE IF Has(play.type, "block")
                \/ (Has(play.text, "blocks") /\ ~play.scoring_play)
        THEN <<Msg("play_by_play", "block", "block", player, 0)>>
        ELSE IF Has(play.type, "steal") \/ Has(play.text, "steal")
        THEN <<Msg("play_by_play", "steal", "steal", player, 0)>>
        ELSE IF Has(play.type, "rebound")
        THEN <<Msg("play_by_play", "rebound", "rebound", player, 0)>>
        ELSE IF Has(play.type, "period") /\ Has(play.type, "end")
        THEN <<Msg("play_by_play", "period", "end", "", play.period)>>
             \o (IF llm
                 THEN <<Msg("ai_commentator", "ai_summary", "quarter", "", play.period)>>
                 ELSE <<Msg("stats_nerd", "summary", "Quarter", "", play.period)>>)
        ELSE <<>>

\* a detection that also takes a tie for a change of lead
LeadMessagesOnTie(play, prev_play) ==
    LET prev_diff == prev_play.away_score - prev_play.home_score
        curr_diff == play.away_score - play.home_score
    IN  IF ~play.scoring_play THEN <<>>
        ELSE IF prev_diff > 0 /\ curr_diff <= 0
        THEN <<Msg("hype_man", "lead_change", "lead", HOME, 0)>>
        ELSE IF prev_diff < 0 /\ curr_diff >= 0
        THEN <<Msg("hype_man", "lead_change", "lead", AWAY, 0)>>
        ELSE <<>>

\* a detection that calls taking the lead from a tied score a lead change
LeadMessagesFromTie(play, prev_play) ==
    LET prev_diff == prev_play.away_score - prev_play.home_score
        curr_diff == play.away_score - play.home_score
    IN  IF ~play.scoring_play THEN <<>>
        ELSE IF prev_diff >= 0 /\ curr_diff < 0
        THEN <<Msg("hype_man", "lead_change", "lead", HOME, 0)>>
        ELSE IF prev_diff <= 0 /\ curr_diff > 0
        THEN <<Msg("hype_man", "lead_change", "lead", AWAY, 0)>>
        ELSE IF curr_diff = 0 /\ prev_diff # 0
        THEN <<Msg("hype_man", "tie", "tie", "", play.home_score)>>
        ELSE <<>>

\* lead change and tie detection, on scoring plays only
LeadMessages(play, prev_play) ==
    LET prev_diff == prev_play.away_score - prev_play.home_score
        curr_diff == play.away_score - play.home_score
    IN  IF ~play.scoring_play THEN <<>>
        ELSE IF prev_diff > 0 /\ curr_diff < 0
        THEN <<Msg("hype_man", "lead_change", "lead", HOME, 0)>>
        ELSE IF prev_diff < 0 /\ curr_diff > 0
        THEN <<Msg("hype_man", "lead_change", "lead", AWAY, 0)>>
        ELSE IF curr_diff = 0 /\ prev_diff # 0
        THEN <<Msg("hype_man", "tie", "tie", "", play.home_score)>>
        ELSE <<>>

\* a largest-lead detection that announces every new largest lead
SideEveryLead(lead, recorded, team) ==
    IF lead > 0 /\ lead > recorded
    THEN <<Msg("stats_nerd", "largest_lead", "largest", team, lead)>>
    ELSE <<>>

\* largest lead detection: the message of one side
SideLargestLead(lead, recorded, team) ==
    IF lead > 0 /\ lead > recorded /\ lead >= LargestLeadMin
    THEN <<Msg("stats_nerd", "largest_lead", "largest", team, lead)>>
    ELSE <<>>

LargestLeadMessages(play, largest_leads) ==
    IF ~play.scoring_play THEN <<>>
    ELSE SideLargestLead(play.home_score - play.away_score, largest_leads.home, HOME)
         \o SideLargestLead(play.away_score - play.home_score, largest_leads.away, AWAY)

\* a largest_leads dict that follows the lead of the play
LeadsAfterPlay(play, largest_leads) ==
    [home |-> Max2(play.home_score - play.away_score, 0),
     away |-> Max2(play.away_score - play.home_score, 0)]

\* the largest_leads dict after the call (it is updated in place)
LargestLeadsAfter(play, largest_leads) ==
    LET home_lead == play.home_score - play.away_score
        away_lead == play.away_score - play.home_score
    IN  IF ~play.scoring_play THEN largest_leads
        ELSE [home |-> IF home_lead > 0 /\ home_lead > largest_leads.home
                       THEN home_lead ELSE largest_leads.home,
              away |-> IF away_lead > 0 /\ away_lead > largest_leads.away
                       THEN away_lead ELSE largest_leads.away]

\* the final recap, when the game is final and the LLM answers
RecapMessages(play, is_game_final, llm) ==
    IF is_game_final /\ llm
    THEN <<Msg("ai_commentator", "ai_summary", "recap", "", 0)>> ELSE <<>>

GenerateMessages(play, prev_play, largest_leads, is_game_final, llm) ==
    [msgs |-> CategoryMessages(play, llm)
              \o LeadMessages(play, prev_play)
              \o LargestLeadMessages(play, largest_leads)
              \o RecapMessages(play, is_game_final, llm),
     largest_leads |-> LargestLeadsAfter(play, largest_leads)]

\* the keyword arguments generate_messages_from_play accepts, and the ones
\* the two regeneration loops of the handler pass
AcceptedKeywords ==
    {"play", "game_info", "prev_play", "largest_leads", "lead_changes",
     "is_game_final"}

RegenKeywords ==
    {"play", "game_info", "prev_play", "largest_leads", "lead_changes",
     "is_game_final", "skip_llm"}

\* Python raises TypeError on an unexpected keyword argument
CallRaises(keywords) == ~(keywords \subseteq AcceptedKeywords)

----------------------------------------------------------------------------
(* Deduplication key and the append step of the History *)

BotTokens ==
    [ play_by_play   |-> <<"play", "by", "play">>,
      hype_man       |-> <<"hype", "man">>,
      stats_nerd     |-> <<"stats", "nerd">>,
      ai_commentator |-> <<"ai", "commentator">>,
      historian      |-> <<"historian">> ]

TypeTokens ==
    [ score |-> <<"score">>, hype |-> <<"hype">>, block |-> <<"block">>,
      steal |-> <<"steal">>, rebound |-> <<"rebound">>, period |-> <<"period">>,
      ai_summary |-> <<"ai", "summary">>, summary |-> <<"summary">>,
      lead_change |-> <<"lead", "change">>, tie |-> <<"tie">>,
      largest_lead |-> <<"largest", "lead">>,
      ai_commentary |-> <<"ai", "commentary">>, milestone |-> <<"milestone">>,
      pregame |-> <<"pregame">> ]

\* f"{action_num}_{bot}_{type}": the string, as its '_'-separated pieces
MsgKey(msg) ==
    <<msg.action_number>> \o BotTokens[msg.bot] \o TypeTokens[msg.type]

KeysOf(msgs) == {MsgKey(msgs[i]) : i \in 1..Len(msgs)}

\* an append step that stores every candidate
AppendEvery(messages, keys, cand) ==
    [messages |-> messages \o cand, keys |-> keys \cup KeysOf(cand)]

\* for msg in all_messages: append it unless its key is already in the set
RECURSIVE AppendNew(_, _, _)
AppendNew(messages, keys, cand) ==
    IF cand = <<>> THEN [messages |-> messages, keys |-> keys]
    ELSE IF MsgKey(Head(cand)) \notin keys
         THEN AppendNew(Append(messages, Head(cand)),
                        keys \cup {MsgKey(Head(cand))}, Tail(cand))
         ELSE AppendNew(messages, keys, Tail(cand))

----------------------------------------------------------------------------
(* The feed handler api_beta_live_feed: the per-play loop *)

NoLeadChanges == [present |-> FALSE, count |-> 0]
NoLargestLeads == [present |-> FALSE, home |-> 0, away |-> 0]
NoViewers == [present |-> FALSE, set |-> {}]

Stamp(msgs, order) == [i \in 1..Len(msgs) |-> [msgs[i] EXCEPT !.action_number = order]]

\* the messages enhance_message_with_llm is asked to comment on
Enhanced(msg) ==
    \/ msg.type \in {"lead_change", "largest_lead", "tie"}
    \/ msg.type = "hype" /\ msg.tag[1] = "POSTER"
    \/ msg.type = "summary" /\ msg.tag[1] = "Quarter"

AiMessage(msg) ==
    [action_number |-> msg.action_number, bot |-> "ai_commentator",
     type |-> "ai_commentary", tag |-> <<"ai", msg.type, 0>>]

\* one ai_commentary message per enhanced message, when the LLM answers
AiMessages(msgs, llm) ==
    LET src == SelectSeq(msgs, Enhanced)
    IN  IF llm THEN [i \in 1..Len(src) |-> AiMessage(src[i])] ELSE <<>>

\* the signed score differences of the last play of a list
LeadsOfLast(ll, ps) ==
    IF ps = <<>> THEN ll
    ELSE [home |-> ps[Len(ps)].home_score - ps[Len(ps)].away_score,
          away |-> ps[Len(ps)].away_score - ps[Len(ps)].home_score]

\* largest leads that ignore the plays of the history
LeadsKept(ll, ps) == ll

\* the largest leads over a list of plays, starting from ll
RECURSIVE LargestLeadsOver(_, _)
LargestLeadsOver(ll, ps) ==
    IF ps = <<>> THEN ll
    ELSE LET h == Head(ps).home_score
             aw == Head(ps).away_score
         IN  LargestLeadsOver(
                 [home |-> IF h > aw THEN Max2(ll.home, h - aw) ELSE ll.home,
                  away |-> IF aw > h THEN Max2(ll.away, aw - h) ELSE ll.away],
                 Tail(ps))

\* a count of the plays after which the side ahead (or nobody) is another
\* than before, ties included
CountTurns(ps) ==
    Cardinality({i \in 2..Len(ps) :
        LET prev_diff == ps[i-1].away_score - ps[i-1].home_score
            curr_diff == ps[i].away_score - ps[i].home_score
        IN  (prev_diff > 0) # (curr_diff > 0) \/ (prev_diff < 0) # (curr_diff < 0)})

\* strict sign flips of the score difference between consecutive plays
CountFlips(ps) ==
    Cardinality({i \in 2..Len(ps) :
        LET prev_diff == ps[i-1].away_score - ps[i-1].home_score
            curr_diff == ps[i].away_score - ps[i].home_score
        IN  (prev_diff > 0 /\ curr_diff < 0) \/ (prev_diff < 0 /\ curr_diff > 0)})

\* 'Track stats from the play' and the check for the tracked player
PlayMilestones(stats, ann, play) ==
    LET tr == TrackPlayerStats(stats, play)
    IN  IF tr.player # ""
        THEN LET chk == CheckStatMilestones(tr.stats, ann, tr.player)
             IN  [stats |-> tr.stats, ann |-> chk.ann, msgs |-> chk.msgs]
        ELSE [stats |-> tr.stats, ann |-> ann, msgs |-> <<>>]

\* the body of 'for i, play in enumerate(new_plays_for_messages)' for one
\* play: st carries the in-memory dicts, the batch's messages and the
\* previous play of the batch
LoopBody(st, play, llm) ==
    LET g == GenerateMessages(play, st.prev, st.ll, FALSE, llm)
        messages == Stamp(g.msgs, play.order)
        fired == Len(SelectSeq(messages, LAMBDA m : m.type = "lead_change"))
        ai == AiMessages(messages, llm)
        chk == PlayMilestones(st.stats, st.ann, play)
        big == IF Abs(play.home_score - play.away_score) >= BigLeadMin
               THEN CheckBigLeadMilestone(chk.ann, play.home_score,
                                          play.away_score, play.period)
               ELSE [msgs |-> <<>>, ann |-> chk.ann]
        milestones == Stamp(chk.msgs \o big.msgs, play.order)
    IN  [ll |-> g.largest_leads,
         lc |-> st.lc + fired,
         stats |-> chk.stats,
         ann |-> big.ann,
         em |-> Emit(st.em, milestones),
         msgs |-> st.msgs \o messages \o ai \o milestones,
         prev |-> AsPrev(play),
         fired |-> st.fired + fired]

RECURSIVE Loop(_, _, _)
Loop(st, ps, llm) ==
    IF ps = <<>> THEN st ELSE Loop(LoopBody(st, Head(ps), llm), Tail(ps), llm)

\* generate_pregame_preview, as prepended to early first loads
PregameMessages ==
    <<[action_number |-> -100, bot |-> "play_by_play", type |-> "pregame",
       tag |-> <<"pregame", "", 0>>]>>

PregameLimit == 50

----------------------------------------------------------------------------
(* The History record, in memory and in the game's file *)

NoFile ==
    [present |-> FALSE, messages |-> <<>>, scores |-> <<>>, status |-> "",
     last_action |-> 0, lead_changes |-> 0, final_score |-> ZeroLeads,
     total_actions |-> 0, player_stats |-> "none"]

NoHist ==
    [present |-> FALSE, messages |-> <<>>, scores |-> <<>>, status |-> "",
     last_action |-> 0, lead_changes |-> 0, final_score |-> ZeroLeads,
     total_actions |-> 0, player_stats |-> "none", hasKeys |-> FALSE, keys |-> {}]

\* the dict created when the game is not in _dev_live_history
EmptyHist == [NoHist EXCEPT !.present = TRUE, !.hasKeys = TRUE]

\* a dict without saved_action_numbers, as built for saving or loaded
Unkeyed(messages, scores, status, last_action, lead_changes, final_score, total_actions, player_stats) ==
    [present |-> TRUE, messages |-> messages, scores |-> scores,
     status |-> status, last_action |-> last_action,
     lead_changes |-> lead_changes, final_score |-> final_score,
     total_actions |-> total_actions, player_stats |-> player_stats,
     hasKeys |-> FALSE, keys |-> {}]

\* json.dump of an in-memory dict that holds no set
ToFile(h) ==
    [present |-> TRUE, messages |-> h.messages, scores |-> h.scores,
     status |-> h.status, last_action |-> h.last_action,
     lead_changes |-> h.lead_changes, final_score |-> h.final_score,
     total_actions |-> h.total_actions, player_stats |-> h.player_stats]

\* json.load of the file, kept as the in-memory dict
FromFile(d) ==
    Unkeyed(d.messages, d.scores, d.status, d.last_action, d.lead_changes,
            d.final_score, d.total_actions, d.player_stats)

\* rebuild saved_action_numbers from the messages when the dict has none
EnsureKeys(h) ==
    IF h.hasKeys THEN h
    ELSE [h EXCEPT !.hasKeys = TRUE, !.keys = KeysOf(h.messages)]

ScoreEntry(home, away, action) == [home |-> home, away |-> away, action |-> action]

\* a recording that appends whatever the last entry is
RecordEvery(scores, home, away, action) ==
    IF home > 0 \/ away > 0
    THEN Append(scores, ScoreEntry(home, away, action))
    ELSE scores

\* append to the timeline only if the (home, away) pair differs from the
\* last recorded entry; nothing is recorded at 0-0
RecordScore(scores, home, away, action) ==
    IF home > 0 \/ away > 0
    THEN IF scores = <<>>
            \/ scores[Len(scores)].home # home
            \/ scores[Len(scores)].away # away
         THEN Append(scores, ScoreEntry(home, away, action))
         ELSE scores
    ELSE scores

\* the score history built from all plays, changes only
RECURSIVE ScoresOver(_, _)
ScoresOver(scores, ps) ==
    IF ps = <<>> THEN scores
    ELSE ScoresOver(RecordScore(scores, Head(ps).home_score,
                                Head(ps).away_score, Head(ps).order), Tail(ps))

MaxOrder(ps) == IF ps = <<>> THEN 0 ELSE SetMax({ps[i].order : i \in 1..Len(ps)})

\* the status string the handler derives from the game object
GameStatusText(g) == IF g = "Final" THEN "Final" ELSE IF g = "Live" THEN "Q" ELSE "7:00 PM"

\* the raw status string of the game object, as the daemon stores it
RawStatus(g) == IF g = "Final" THEN "Final" ELSE IF g = "Live" THEN "Qtr" ELSE "7:00 PM"

----------------------------------------------------------------------------
(* History regeneration for a completed game (both regeneration loops) *)

\* one iteration: the largest leads are updated before the call, the last
\* play is the game-final one
RECURSIVE RegenLoop(_, _, _, _, _)
RegenLoop(acc, prev, ll, ps, llm) ==
    IF ps = <<>> THEN acc
    ELSE LET play == Head(ps)
             ll1 == LargestLeadsOver(ll, <<play>>)
             g == GenerateMessages(play, prev, ll1, Len(ps) = 1, llm)
         IN  RegenLoop(acc \o Stamp(g.msgs, play.order), AsPrev(play),
                       g.largest_leads, Tail(ps), llm)

RegenMessages(ps, llm) == RegenLoop(<<>>, NoPlay, ZeroLeads, ps, llm)

----------------------------------------------------------------------------
(* The feed handler api_beta_live_feed *)

\* the 'last_action' of the pregame response
PregameLastAction == -95

\* what the last step was and, for a feed request, what it answered and did:
\* op is the branch of the handler, msgs the messages of the response, batch
\* the orders of the plays the loop processed, cand the messages they
\* produced, pre/post/postKeys the stored messages around the append step,
\* lc0/lcLoop the lead-change count before and after the loop, fired the
\* lead-change messages of the loop, fresh that no dict held the game
IdleObs ==
    [op |-> "idle", code |-> 0, la |-> 0, msgs |-> <<>>, batch |-> <<>>,
     cand |-> <<>>, pre |-> <<>>, post |-> <<>>, postKeys |-> {}, lc0 |-> 0,
     lcLoop |-> 0, fired |-> 0, emptyFinal |-> FALSE, fresh |-> FALSE,
     last_action |-> 0]

\* the response of a request that never reaches the history storage
Reply(op, code, la, msgs, emptyFinal) ==
    [IdleObs EXCEPT !.op = op, !.code = code, !.la = la, !.msgs = msgs,
                    !.emptyFinal = emptyFinal]

\* the game is Final and no message of it is stored, in memory or on disk,
\* while the feed has plays
FinalWithoutMessages ==
    /\ gstatus = "Final"
    /\ plays # <<>>
    /\ hist.messages = <<>>
    /\ disk.messages = <<>>

\* no module-level dict of the handler holds the game (the viewers apart,
\* where the request registers itself first)
FreshMemory ==
    /\ ~hist.present
    /\ ~leadChanges.present
    /\ ~largestLeads.present
    /\ ~playerStats.present
    /\ ~announced.present

\* player stats come from the NBA boxscore (with starter flags) or, when
\* that fails, from BallDontLie (without)
StatsSource(nba) == IF nba THEN "nba" ELSE "bdl"

\* viewer heartbeat and stale-viewer cleanup; stale are the other viewers
\* whose last heartbeat is older than VIEWER_TIMEOUT
Heartbeat(v, client, stale) ==
    [present |-> TRUE, set |-> (v.set \cup {client}) \ stale]

\* a filter that also keeps the play the client already has
PlaysFrom(ps, la, recent_only) ==
    LET new_plays == SelectSeq(ps, LAMBDA p : p.order >= la)
        min_period == Max2(1, PeriodAfter(ps) - 1)
    IN  IF la = 0 /\ recent_only /\ new_plays # <<>>
        THEN SelectSeq(new_plays, LAMBDA p : p.period >= min_period)
        ELSE new_plays

\* new_plays_for_messages
PlaysForMessages(ps, la, recent_only) ==
    LET new_plays == SelectSeq(ps, LAMBDA p : p.order > la)
        min_period == Max2(1, PeriodAfter(ps) - 1)
    IN  IF la = 0 /\ recent_only /\ new_plays # <<>>
        THEN SelectSeq(new_plays, LAMBDA p : p.period >= min_period)
        ELSE new_plays

\* the play just before the new ones
PrevPlay(ps, la) ==
    LET prev_plays == SelectSeq(ps, LAMBDA p : p.order = la)
    IN  IF la > 0 /\ prev_plays # <<>> THEN AsPrev(prev_plays[1]) ELSE NoPlay

\* everything from 'Initialize lead change tracking' to the history
\* metadata update: the in-memory dicts and the History after the append,
\* from the dicts mem and the play list ps
ProcessOn(mem, ps, la, recent_only, llm) ==
    LET needs_lead_change_calc == ~mem.lc.present
        needs_full_history_calc == ~mem.ll.present
        rebuild == (la = 0 \/ needs_full_history_calc) /\ ps # <<>>
        ll0 == [home |-> mem.ll.home, away |-> mem.ll.away]
        ll1 == IF rebuild THEN LargestLeadsOver(ll0, ps) ELSE ll0
        stats1 == IF rebuild THEN TrackAll(mem.stats, ps) ELSE mem.stats
        pregame == IF la = 0 /\ PeriodAfter(ps) = 1 /\ Len(ps) < PregameLimit
                   THEN PregameMessages ELSE <<>>
        st0 == [ll |-> ll1, lc |-> mem.lc.count, stats |-> stats1,
                ann |-> mem.ann, em |-> mem.em, msgs |-> <<>>,
                prev |-> PrevPlay(ps, la), fired |-> 0]
        new_plays_for_messages == PlaysForMessages(ps, la, recent_only)
        st == Loop(st0, new_plays_for_messages, llm)
        all_messages == pregame \o st.msgs
        recount == (la = 0 \/ needs_lead_change_calc) /\ Len(ps) > 1
        lc == IF recount THEN CountFlips(ps) ELSE st.lc
        h0 == EnsureKeys(IF mem.hist.present THEN mem.hist ELSE EmptyHist)
        ap == AppendNew(h0.messages, h0.keys, all_messages)
        h1 == [h0 EXCEPT
                 !.messages = ap.messages,
                 !.keys = ap.keys,
                 !.scores = RecordScore(@, LastHome(ps), LastAway(ps),
                                        MaxOrder(ps)),
                 !.last_action = MaxOrder(ps),
                 !.lead_changes = lc,
                 !.final_score = [home |-> LastHome(ps), away |-> LastAway(ps)],
                 !.total_actions = Len(ps)]
    IN  [ll |-> [present |-> TRUE, home |-> st.ll.home, away |-> st.ll.away],
         lc |-> [present |-> TRUE, count |-> lc],
         stats |-> st.stats, ann |-> st.ann, em |-> st.em,
         all_messages |-> all_messages, pre |-> h0.messages, hist |-> h1,
         lcLoop |-> st.lc, fired |-> st.fired,
         batch |-> [i \in 1..Len(new_plays_for_messages) |->
                       new_plays_for_messages[i].order]]

\* the handler's processing of the game's own dicts and play list
Processed(la, recent_only, llm) ==
    ProcessOn([lc |-> leadChanges, ll |-> largestLeads, stats |-> playerStats,
               ann |-> announced, em |-> emitted, hist |-> hist],
              plays, la, recent_only, llm)

\* 'Check if game just ended': the History and the file after it.
\* raised tells that the regeneration call raised (the handler answers 500).
\* nba_games is bound only while the game is live, so at Final the boxscore
\* lookup raises NameError and the stats saved are the BallDontLie ones
Finalized(h, llm) ==
    IF gstatus = "Final" /\ h.status # "Final"
    THEN LET hf == [h EXCEPT !.status = "Final"]
             regen == hf.messages = <<>> /\ plays # <<>>
         IN  IF regen /\ CallRaises(RegenKeywords)
             THEN [hist |-> hf, disk |-> disk, raised |-> TRUE]
             ELSE LET hr == IF regen
                            THEN [hf EXCEPT
                                    !.messages = RegenMessages(plays, llm),
                                    !.lead_changes = CountFlips(plays),
                                    !.scores = IF ScoresOver(<<>>, plays) # <<>>
                                               THEN ScoresOver(<<>>, plays) ELSE @]
                            ELSE hf
                      hs == [hr EXCEPT !.player_stats = StatsSource(FALSE),
                                       !.hasKeys = FALSE, !.keys = {}]
                  IN  [hist |-> hs, disk |-> ToFile(hs), raised |-> FALSE]
    ELSE [hist |-> [h EXCEPT !.status = GameStatusText(gstatus)],
          disk |-> disk, raised |-> FALSE]

\* 'Save history for live games on first load': the dict that replaces the
\* in-memory History and is written to the file
FirstLoadSave(all_messages, lc, nba) ==
    Unkeyed(all_messages, ScoresOver(<<>>, plays), GameStatusText(gstatus),
            MaxOrder(plays), lc,
            [home |-> LastHome(plays), away |-> LastAway(plays)],
            Len(plays), StatsSource(nba))

\* 'For completed games without saved history, generate and save'
GeneratedFinal(nba, llm) ==
    Unkeyed(RegenMessages(plays, llm), ScoresOver(<<>>, plays), "Final",
            MaxOrder(plays), CountFlips(plays),
            [home |-> LastHome(plays), away |-> LastAway(plays)],
            Len(plays), StatsSource(nba))

----------------------------------------------------------------------------
(* Writing the game's file: save_dev_live_history (src/app.py) and         *)
(* atomic_write_json (src/live_daemon.py).  A file is an inode holding the *)
(* chunks json.dump has flushed so far; a name is bound to an inode.        *)

MaxChunks == 2
MaxSaves == 1

\* the request handlers that save, and the daemon
Handlers == {"h1", "h2"}
Writers == Handlers \cup {"d"}

\* a chunk nobody wrote: the gap a write past the end of a file leaves
Hole == <<"", 0, 0>>

\* the complete content of the n-th save of writer w
Complete(w, n) == [i \in 1..MaxChunks |-> <<w, n, i>>]

\* the directory with one complete earlier version at the final path and
\* nothing at '<final path>.tmp'
InitialDir == [inodes |-> <<Complete("init", 0)>>, tmp |-> 0, final |-> 1]

IdleWriter == [pc |-> "idle", fd |-> 0, pos |-> 0, saves |-> 0]

\* write(2) of chunk x at offset k of content c
WriteAt(c, k, x) ==
    [i \in 1..Max2(Len(c), k) |->
        IF i = k THEN x ELSE IF i <= Len(c) THEN c[i] ELSE Hole]

----------------------------------------------------------------------------
(* The daemon's cache warming, warm_dev_live_cache (src/live_daemon.py),   *)
(* as the read-modify-write of the game's file that it is                  *)

MaxRacePlays == 1

RaceTemplates == {Home2}

\* the daemon between two warmings
IdleDaemon == [pc |-> "idle", status |-> "", plays |-> <<>>, existing |-> NoFile]

\* cache_data: the messages and lead_changes of the file as it was read,
\* fresh scores, and the status of the game object the daemon holds
CacheData(existing, ps, status) ==
    [present |-> TRUE,
     messages |-> existing.messages,
     scores |-> ScoresOver(<<>>, ps),
     status |-> status,
     last_action |-> ps[Len(ps)].order,
     lead_changes |-> existing.lead_changes,
     final_score |-> [home |-> LastHome(ps), away |-> LastAway(ps)],
     total_actions |-> Len(ps),
     player_stats |-> "none"]

----------------------------------------------------------------------------
(* The stylistic rewrite: refine_message_with_persona (src/llm_commentary.py) *)
(* and its stand-in when the module cannot be imported (src/app.py).  A     *)
(* string is the sequence of its characters.                                 *)

KeyPrefix == 50
MAX_REFINEMENT_CACHE == 200
EvictCount == 40

BOT_PERSONAS == {"hype_man", "play_by_play", "stats_nerd", "historian", "trash_talker"}

\* the bot types of the calls: one with a persona, one without
BotTypes == {"hype_man", "mascot"}

\* the gists of the calls: two that agree on their first 50 characters and a
\* short one
LongGist == [i \in 1..KeyPrefix |-> "a"]
Gists == {LongGist, LongGist \o <<"b">>, <<"t", "i", "e">>}

\* what client.messages.create does: it raises, it times out (an exception
\* as well), it answers without a content block, or it answers with a text
Answer(kind, text) == [kind |-> kind, text |-> text]
Answers ==
    {Answer("raises", <<>>), Answer("timeout", <<>>), Answer("no_content", <<>>),
     Answer("text", <<"o", "k">>),
     Answer("text", <<" ", "\"", "o", "k", "\"", " ">>),
     Answer("text", <<" ", " ">>)}

\* str.strip(): the string without its leading and trailing blanks
RECURSIVE Strip(_)
Strip(t) ==
    IF t = <<>> THEN t
    ELSE IF Head(t) = " " THEN Strip(Tail(t))
    ELSE IF t[Len(t)] = " " THEN Strip(SubSeq(t, 1, Len(t) - 1))
    ELSE t

\* 'Remove quotes if the model wrapped the response'
Unquote(t) ==
    IF t # <<>> /\ t[1] = "\"" /\ t[Len(t)] = "\""
    THEN SubSeq(t, 2, Len(t) - 1) ELSE t

\* f"{bot_type}:{gist[:50]}"
CacheKey(bot_type, gist) ==
    [bot |-> bot_type, head |-> SubSeq(gist, 1, IF Len(gist) < KeyPrefix THEN Len(gist) ELSE KeyPrefix)]

\* the dict _refinement_cache as the sequence of its items, oldest first
CacheHas(cache, key) == \E i \in 1..Len(cache) : cache[i].key = key
CacheGet(cache, key) == cache[CHOOSE i \in 1..Len(cache) : cache[i].key = key].value

\* 'Cache the result', after removing the oldest entries of a full cache
CachePut(cache, key, value) ==
    LET kept == IF Len(cache) >= MAX_REFINEMENT_CACHE
                THEN SubSeq(cache, EvictCount + 1, Len(cache)) ELSE cache
    IN  Append(kept, [key |-> key, value |-> value])

Returned(text, cache, hit, raised) ==
    [text |-> text, cache |-> cache, hit |-> hit, raised |-> raised]

\* refine_message_with_persona(bot_type, gist) with the switch
\* ENABLE_LLM_REFINEMENT, get_client() giving a client or None, and the
\* collaborator's answer
refine_message_with_persona(cache, enabled, client, bot_type, gist, answer) ==
    IF ~enabled THEN Returned(gist, cache, FALSE, FALSE)
    ELSE IF ~client THEN Returned(gist, cache, FALSE, FALSE)
    ELSE IF bot_type \notin BOT_PERSONAS THEN Returned(gist, cache, FALSE, FALSE)
    ELSE IF CacheHas(cache, CacheKey(bot_type, gist))
    THEN Returned(CacheGet(cache, CacheKey(bot_type, gist)), cache, TRUE, FALSE)
    ELSE IF answer.kind = "text"
    THEN LET result == Unquote(Strip(answer.text))
         IN  Returned(result, CachePut(cache, CacheKey(bot_type, gist), result),
                      FALSE, FALSE)
    ELSE Returned(gist, cache, FALSE, FALSE)

\* the name the composer calls: the imported function or, after an
\* ImportError, the stand-in that returns the gist
ComposerRefine(imported, cache, enabled, client, bot_type, gist, answer) ==
    IF imported
    THEN refine_message_with_persona(cache, enabled, client, bot_type, gist, answer)
    ELSE Returned(gist, cache, FALSE, FALSE)

\* no call of the refinement yet
NoCall ==
    [called |-> FALSE, imported |-> FALSE, enabled |-> FALSE, client |-> FALSE,
     bot_type |-> "", gist |-> <<>>, answer |-> Answer("", <<>>),
     text |-> <<>>, hit |-> FALSE, raised |-> FALSE]

----------------------------------------------------------------------------
(* A feed with a play the handler cannot process: 'type' is JSON null, so   *)
(* play.get('type', '').lower() raises AttributeError                        *)

MaxMalformed == 3

Null == "null"

NullType == Template(Null, "makes", "home", "A", "", TRUE, 2)

MalformedTemplates == {Home2, NullType}

Malformed(play) == play.type = Null

HasMalformed(ps) == \E i \in 1..Len(ps) : Malformed(ps[i])

\* the plays before the first malformed one
BeforeMalformed(ps) ==
    SubSeq(ps, 1, (CHOOSE i \in 1..Len(ps) :
                      Malformed(ps[i]) /\ \A j \in 1..(i - 1) : ~Malformed(ps[j])) - 1)

\* the request takes the live path of the handler
LivePath(la) ==
    /\ ~(disk.present /\ (disk.status = "Final" \/ (disk.status # "" /\ la = 0)))
    /\ gstatus = "Live"

\* the live path reaches a malformed play: in the pass over the whole list
\* on a fresh load, or in the loop over the new plays
ReachesMalformed(la, recent_only) ==
    \/ (la = 0 \/ ~largestLeads.present) /\ HasMalformed(plays)
    \/ HasMalformed(PlaysForMessages(plays, la, recent_only))

\* the live path up to the AttributeError: what the plays before the
\* malformed one did to the dicts
RaisedAt(la, recent_only, llm) ==
    LET rebuild == (la = 0 \/ ~largestLeads.present) /\ plays # <<>>
        inRebuild == rebuild /\ HasMalformed(plays)
        seen == IF inRebuild THEN BeforeMalformed(plays) ELSE plays
        ll0 == [home |-> largestLeads.home, away |-> largestLeads.away]
        \* the lead of the malformed play is recorded before it is tracked
        ll1 == IF rebuild
               THEN LargestLeadsOver(ll0, SubSeq(plays, 1, Len(seen) + (IF inRebuild THEN 1 ELSE 0)))
               ELSE ll0
        stats1 == IF rebuild
                  THEN [present |-> TRUE, by |-> TrackAll(playerStats, seen).by]
                  ELSE playerStats
        st0 == [ll |-> ll1, lc |-> leadChanges.count, stats |-> stats1,
                ann |-> announced, em |-> emitted, msgs |-> <<>>,
                prev |-> PrevPlay(plays, la), fired |-> 0]
    IN  IF inRebuild THEN st0
        ELSE Loop(st0, BeforeMalformed(PlaysForMessages(plays, la, recent_only)), llm)

\* the handler's 'except Exception' after it: the History is not touched
\* and the answer is HTTP 500
ServeLiveRaises(la, client, stale, recent_only, llm) ==
    \E st \in {RaisedAt(la, recent_only, llm)} :
        /\ viewers' = Heartbeat(viewers, client, stale)
        /\ leadChanges' = [present |-> TRUE, count |-> st.lc]
        /\ largestLeads' = [present |-> TRUE, home |-> st.ll.home, away |-> st.ll.away]
        /\ playerStats' = st.stats
        /\ announced' = st.ann
        /\ emitted' = st.em
        /\ obs' = [Reply("live", 500, la, <<>>, FALSE) EXCEPT !.lc0 = leadChanges.count,
                                                             !.lcLoop = st.lc]
        /\ UNCHANGED <<hist, disk>>

----------------------------------------------------------------------------
(* Two games.  The module-level dicts are keyed by game_id and the file is  *)
(* named after it; the state variables hold the entries of the game the     *)
(* requests name, parked those of the other game                             *)

GameIds == {"A", "B"}

MaxTwoGamePlays == 1

MaxChecks == 3

TwoGameTemplates == {Home2}

Entries(id, ps, status, file, h, lc, ll, stats, ann, v, em) ==
    [id |-> id, plays |-> ps, gstatus |-> status, disk |-> file, hist |-> h,
     leadChanges |-> lc, largestLeads |-> ll, playerStats |-> stats,
     announced |-> ann, viewers |-> v, emitted |-> em]

\* the entries the other games leave emptied of their viewers
WithoutViewers(p) == [p EXCEPT !.viewers = NoViewers]

\* the entries of the other games after a request: every statement of the
\* handler and of the functions it calls indexes the dicts with the
\* request's game_id, and the file and its temporary are named after it
OtherGameEntries(p) == p

----------------------------------------------------------------------------
(* State machine *)

\* run_daemon before its loop: current_game_id = None, game_finished =
\* False, postgame_time = None (0 stands for None); now is the clock, begun
\* and done count the final processings begun and completed
IdleLoop ==
    [current_game_id |-> 0, game_finished |-> FALSE, postgame_time |-> 0,
     now |-> 0, begun |-> 0, done |-> 0]

\* a client that has sent no request yet: last_action 0, no play's messages
\* received, none received twice
NoPolling == [la |-> 0, seen |-> {}, twice |-> {}]

\* no recent_games.json yet (load_cache returns None), no update made
NoRecent == [games |-> <<>>, id |-> 0, ret |-> FALSE, before |-> <<>>]

Init ==
    /\ plays = <<>>
    /\ gstatus = "Pre"
    /\ disk = NoFile
    /\ hist = NoHist
    /\ leadChanges = NoLeadChanges
    /\ largestLeads = NoLargestLeads
    /\ playerStats = NoStats
    /\ announced = NoAnnounced
    /\ viewers = NoViewers
    /\ reqs = 0
    /\ emitted = <<>>
    /\ obs = IdleObs
    /\ fs = InitialDir
    /\ wr = [w \in Writers |-> IdleWriter]
    /\ daemon = IdleDaemon
    /\ refine = [cache |-> <<>>, last |-> NoCall]
    /\ writable = TRUE
    /\ parked = Entries("B", <<>>, "Pre", NoFile, NoHist, NoLeadChanges,
                        NoLargestLeads, NoStats, NoAnnounced, NoViewers, <<>>)
    /\ tracker = <<>>
    /\ loop = IdleLoop
    /\ recent = NoRecent
    /\ polling = NoPolling

\* save_dev_live_history writing file d: when open, json.dump or os.rename
\* raises, the except prints the error and the file stays as it was
Written(d) == IF writable THEN d ELSE disk

\* a Final branch that answers every request with all the saved messages
ServeFinalInFull(la, nba) ==
    /\ obs' = [Reply("final", 200, la, disk.messages, FALSE)
                  EXCEPT !.last_action = disk.last_action]
    /\ UNCHANGED <<disk, hist, leadChanges, largestLeads, playerStats,
                   announced, viewers, emitted>>

\* the saved history is Final: it is returned as it is (after adding the
\* starter flags to player stats saved without them)
ServeFinal(la, nba) ==
    LET enrich == disk.player_stats = "bdl" /\ nba
        saved == IF enrich THEN [disk EXCEPT !.player_stats = "nba"] ELSE disk
    IN  /\ disk' = Written(saved)
        /\ hist' = IF enrich THEN FromFile(saved) ELSE hist
        /\ obs' = [Reply("final", 200, la, IF la = 0 THEN disk.messages ELSE <<>>, FALSE)
                      EXCEPT !.last_action = disk.last_action]
        /\ UNCHANGED <<leadChanges, largestLeads, playerStats, announced,
                       viewers, emitted>>

\* first load of a live game with a saved history: the saved messages
ServeSaved(la) ==
    /\ obs' = [Reply("saved", 200, la, disk.messages, FALSE)
                  EXCEPT !.last_action = disk.last_action]
    /\ UNCHANGED <<disk, hist, leadChanges, largestLeads, playerStats,
                   announced, viewers, emitted>>

\* the game has not started: the pregame preview
ServePregame(la, client, stale) ==
    /\ viewers' = Heartbeat(viewers, client, stale)
    /\ obs' = [Reply("pregame", 200, la, IF la = 0 THEN PregameMessages ELSE <<>>,
                        FALSE)
                  EXCEPT !.last_action = PregameLastAction]
    /\ UNCHANGED <<disk, hist, leadChanges, largestLeads, playerStats,
                   announced, emitted>>

\* a completed game without saved history: generate and save at once
ServeGenerated(la, client, stale, nba, llm) ==
    /\ viewers' = Heartbeat(viewers, client, stale)
    /\ IF CallRaises(RegenKeywords)
       THEN /\ obs' = Reply("generated", 500, la, <<>>, FinalWithoutMessages)
            /\ UNCHANGED <<disk, hist>>
       ELSE /\ hist' = GeneratedFinal(nba, llm)
            /\ disk' = Written(ToFile(GeneratedFinal(nba, llm)))
            /\ obs' = [Reply("generated", 200, la, RegenMessages(plays, llm),
                                  FinalWithoutMessages)
                          EXCEPT !.last_action = MaxOrder(plays)]
    /\ UNCHANGED <<leadChanges, largestLeads, playerStats, announced, emitted>>

\* the live path: process the new plays, store, finalize, save
ServeLive(la, client, stale, recent_only, nba, llm) ==
    \E P \in {Processed(la, recent_only, llm)} :
    \E F \in {Finalized(P.hist, llm)} :
    LET first_save == ~F.raised /\ la = 0 /\ plays # <<>> /\ gstatus # "Final"
        saved == FirstLoadSave(P.all_messages, P.lc.count, nba)
    IN  /\ viewers' = Heartbeat(viewers, client, stale)
        /\ leadChanges' = P.lc
        /\ largestLeads' = P.ll
        /\ playerStats' = P.stats
        /\ announced' = P.ann
        /\ emitted' = P.em
        /\ hist' = IF first_save THEN saved ELSE F.hist
        /\ disk' = Written(IF first_save THEN ToFile(saved) ELSE F.disk)
        /\ obs' = [op |-> "live", code |-> IF F.raised THEN 500 ELSE 200,
                   la |-> la, msgs |-> IF F.raised THEN <<>> ELSE P.all_messages,
                   batch |-> P.batch, cand |-> P.all_messages,
                   pre |-> P.pre, post |-> P.hist.messages,
                   postKeys |-> P.hist.keys, lc0 |-> leadChanges.count,
                   lcLoop |-> P.lcLoop, fired |-> P.fired,
                   emptyFinal |-> FinalWithoutMessages,
                   fresh |-> FreshMemory,
                   last_action |-> IF F.raised THEN 0 ELSE MaxOrder(plays)]

\* GET /api/beta-live/feed/<game_id>?last_action=la&client_id=client
Feed(la, client, stale, recent_only, nba, llm) ==
    /\ reqs < MaxReqs
    /\ reqs' = reqs + 1
    /\ UNCHANGED <<envVars, fs, wr, daemon, refine, writable, tracker, loop, recent>>
    /\ parked' = OtherGameEntries(parked)
    /\ LET use_saved == disk.present
                        /\ (disk.status = "Final" \/ (disk.status # "" /\ la = 0))
       IN  IF use_saved /\ disk.status = "Final" THEN ServeFinal(la, nba)
           ELSE IF use_saved /\ gstatus # "Final" THEN ServeSaved(la)
           ELSE IF gstatus = "Pre" THEN ServePregame(la, client, stale)
           ELSE IF gstatus = "Final" /\ ~disk.present /\ plays # <<>>
                THEN ServeGenerated(la, client, stale, nba, llm)
           ELSE ServeLive(la, client, stale, recent_only, nba, llm)

FeedRequest ==
    \E la \in 0..Len(plays), client \in Clients, nba \in BOOLEAN, llm \in BOOLEAN :
      \E recent_only \in (IF la = 0 THEN BOOLEAN ELSE {FALSE}) :
        \E stale \in SUBSET (viewers.set \ {client}) :
            /\ Feed(la, client, stale, recent_only, nba, llm)
            /\ UNCHANGED polling

\* the game starts
Tipoff ==
    /\ gstatus = "Pre"
    /\ gstatus' = "Live"
    /\ obs' = IdleObs
    /\ UNCHANGED <<plays, disk, memVars, reqs, emitted, ioVars>>

\* the provider publishes the next play, one of templates
Publish(templates, max) ==
    /\ gstatus = "Live"
    /\ Len(plays) < max
    /\ \E t \in templates : plays' = Append(plays, NextPlay(plays, t))
    /\ obs' = IdleObs
    /\ UNCHANGED <<gstatus, disk, memVars, reqs, emitted, ioVars>>

UpstreamPlay == Publish(FeedTemplates, MaxPlays)

UpstreamBasket == Publish(ScorerTemplates, MaxBaskets)

UpstreamRally == Publish(RallyTemplates, MaxRally)

\* the provider reports the game as Final
GameEnds ==
    /\ gstatus = "Live"
    /\ gstatus' = "Final"
    /\ obs' = IdleObs
    /\ UNCHANGED <<plays, disk, memVars, reqs, emitted, ioVars>>

\* the web process restarts: every module-level dict is empty again
Restart ==
    /\ hist' = NoHist
    /\ leadChanges' = NoLeadChanges
    /\ largestLeads' = NoLargestLeads
    /\ playerStats' = NoStats
    /\ announced' = NoAnnounced
    /\ viewers' = NoViewers
    /\ obs' = IdleObs
    /\ UNCHANGED <<envVars, disk, reqs, emitted, ioVars>>

\* warm_dev_live_cache for a game the daemon found live (scores on the
\* board, status not Final)
DaemonWarm ==
    /\ gstatus = "Live"
    /\ plays # <<>>
    /\ LastHome(plays) > 0 \/ LastAway(plays) > 0
    /\ disk' = [present |-> TRUE,
                messages |-> disk.messages,
                scores |-> ScoresOver(<<>>, plays),
                status |-> RawStatus(gstatus),
                last_action |-> plays[Len(plays)].order,
                lead_changes |-> disk.lead_changes,
                final_score |-> [home |-> LastHome(plays), away |-> LastAway(plays)],
                total_actions |-> Len(plays),
                player_stats |-> "none"]
    /\ obs' = IdleObs
    /\ UNCHANGED <<envVars, memVars, reqs, emitted, ioVars>>

Next ==
    \/ FeedRequest
    \/ Tipoff
    \/ UpstreamPlay
    \/ GameEnds
    \/ Restart
    \/ DaemonWarm

Spec == Init /\ [][Next]_vars

\* a game in which one player scores every basket
ScorerNext ==
    \/ FeedRequest
    \/ Tipoff
    \/ UpstreamBasket
    \/ Restart

ScorerSpec == Init /\ [][ScorerNext]_vars

\* a game in which the two sides trade baskets
RallyNext ==
    \/ FeedRequest
    \/ Tipoff
    \/ UpstreamRally
    \/ Restart

RallySpec == Init /\ [][RallyNext]_vars

----------------------------------------------------------------------------
(* The ledger and the detector alone: one play at a time through 'track    *)
(* stats from the play' and the milestone check, for one player's stat line *)

LedgerPlay(t) ==
    LET play == NextPlay(<<>>, t)
        r == PlayMilestones(playerStats, announced, play)
    IN  /\ r.stats.by["A"].pts <= MaxPts
        /\ r.stats.by["A"].reb <= MaxReb
        /\ r.stats.by["A"].ast <= MaxAst
        /\ playerStats' = r.stats
        /\ announced' = r.ann
        /\ emitted' = Emit(emitted, r.msgs)
        /\ UNCHANGED <<envVars, disk, hist, leadChanges, largestLeads, viewers,
                       reqs, obs, ioVars>>

Basket == LedgerPlay(Home2)

Rebound == LedgerPlay(ReboundA)

AssistedBasket == LedgerPlay(Away2Ast)

LedgerNext == Basket \/ Rebound \/ AssistedBasket

LedgerSpec == Init /\ [][LedgerNext]_vars

----------------------------------------------------------------------------
(* The saves of one game's file, step by step *)

\* open(temp_path, 'w') with temp_path = filepath + '.tmp': the file of that
\* name is truncated if it exists, created if not
OpenTemp(w) ==
    /\ w \in Handlers
    /\ wr[w].pc = "idle"
    /\ wr[w].saves < MaxSaves
    /\ IF fs.tmp # 0
       THEN /\ fs' = [fs EXCEPT !.inodes[fs.tmp] = <<>>]
            /\ wr' = [wr EXCEPT ![w] = [pc |-> "dump", fd |-> fs.tmp, pos |-> 0,
                                        saves |-> @.saves + 1]]
       ELSE /\ fs' = [fs EXCEPT !.inodes = Append(@, <<>>),
                                !.tmp = Len(fs.inodes) + 1]
            /\ wr' = [wr EXCEPT ![w] = [pc |-> "dump", fd |-> Len(fs.inodes) + 1,
                                        pos |-> 0, saves |-> @.saves + 1]]
    /\ UNCHANGED <<envVars, disk, memVars, reqs, emitted, obs, auxVars>>

\* tempfile.mkstemp(dir=filepath.parent, suffix='.tmp'): a new file under a
\* name of its own
MkTemp(w) ==
    /\ w \notin Handlers
    /\ wr[w].pc = "idle"
    /\ wr[w].saves < MaxSaves
    /\ fs' = [fs EXCEPT !.inodes = Append(@, <<>>)]
    /\ wr' = [wr EXCEPT ![w] = [pc |-> "dump", fd |-> Len(fs.inodes) + 1,
                                pos |-> 0, saves |-> @.saves + 1]]
    /\ UNCHANGED <<envVars, disk, memVars, reqs, emitted, obs, auxVars>>

\* json.dump flushes the next chunk to the open file, at the writer's offset
DumpChunk(w) ==
    /\ wr[w].pc = "dump"
    /\ wr[w].pos < MaxChunks
    /\ fs' = [fs EXCEPT !.inodes[wr[w].fd] =
                  WriteAt(@, wr[w].pos + 1, <<w, wr[w].saves, wr[w].pos + 1>>)]
    /\ wr' = [wr EXCEPT ![w].pos = @ + 1]
    /\ UNCHANGED <<envVars, disk, memVars, reqs, emitted, obs, auxVars>>

\* os.rename(temp_path, filepath) after the file is closed; when the name
\* is gone the call raises, the except branch prints and finds no temp file
RenameTemp(w) ==
    /\ w \in Handlers
    /\ wr[w].pc = "dump"
    /\ wr[w].pos = MaxChunks
    /\ fs' = IF fs.tmp # 0 THEN [fs EXCEPT !.final = fs.tmp, !.tmp = 0] ELSE fs
    /\ wr' = [wr EXCEPT ![w].pc = "idle"]
    /\ UNCHANGED <<envVars, disk, memVars, reqs, emitted, obs, auxVars>>

\* os.replace(tmp_path, filepath) of the daemon's own temp file
ReplaceTemp(w) ==
    /\ w \notin Handlers
    /\ wr[w].pc = "dump"
    /\ wr[w].pos = MaxChunks
    /\ fs' = [fs EXCEPT !.final = wr[w].fd]
    /\ wr' = [wr EXCEPT ![w].pc = "idle"]
    /\ UNCHANGED <<envVars, disk, memVars, reqs, emitted, obs, auxVars>>

\* json.dump raises: the except branch removes the temp file (the handler's
\* by its shared name if a file of that name exists, the daemon's its own)
DumpRaises(w) ==
    /\ wr[w].pc = "dump"
    /\ wr[w].pos < MaxChunks
    /\ fs' = IF w \in Handlers THEN [fs EXCEPT !.tmp = 0] ELSE fs
    /\ wr' = [wr EXCEPT ![w].pc = "idle"]
    /\ UNCHANGED <<envVars, disk, memVars, reqs, emitted, obs, auxVars>>

\* the writing process is killed between two steps of the save
Crash(w) ==
    /\ wr[w].pc = "dump"
    /\ wr' = [wr EXCEPT ![w].pc = "crashed"]
    /\ UNCHANGED <<envVars, disk, memVars, reqs, emitted, obs, fs, auxVars>>

WriteNext ==
    \E w \in Writers :
        \/ OpenTemp(w)
        \/ MkTemp(w)
        \/ DumpChunk(w)
        \/ RenameTemp(w)
        \/ ReplaceTemp(w)
        \/ DumpRaises(w)
        \/ Crash(w)

WriteSpec == Init /\ [][WriteNext]_vars

----------------------------------------------------------------------------
(* Feed requests and the daemon's warming, interleaved *)

UpstreamRacePlay == Publish(RaceTemplates, MaxRacePlays)

\* get_all_live_games found the game live; its play-by-play is fetched
DaemonPoll ==
    /\ daemon.pc = "idle"
    /\ gstatus = "Live"
    /\ plays # <<>>
    /\ LastHome(plays) > 0 \/ LastAway(plays) > 0
    /\ daemon' = [pc |-> "polled", status |-> RawStatus(gstatus), plays |-> plays,
                  existing |-> NoFile]
    /\ obs' = IdleObs
    /\ UNCHANGED <<envVars, disk, memVars, reqs, emitted, fs, wr, sideVars>>

\* 'Load existing cache or create new'
DaemonLoad ==
    /\ daemon.pc = "polled"
    /\ daemon' = [daemon EXCEPT !.pc = "loaded", !.existing = disk]
    /\ obs' = IdleObs
    /\ UNCHANGED <<envVars, disk, memVars, reqs, emitted, fs, wr, sideVars>>

\* atomic_write_json(cache_file, cache_data)
DaemonStore ==
    /\ daemon.pc = "loaded"
    /\ disk' = CacheData(daemon.existing, daemon.plays, daemon.status)
    /\ daemon' = IdleDaemon
    /\ obs' = IdleObs
    /\ UNCHANGED <<envVars, memVars, reqs, emitted, fs, wr, sideVars>>

RaceNext ==
    \/ FeedRequest
    \/ Tipoff
    \/ UpstreamRacePlay
    \/ GameEnds
    \/ DaemonPoll
    \/ DaemonLoad
    \/ DaemonStore

RaceSpec == Init /\ [][RaceNext]_vars

----------------------------------------------------------------------------
(* The handler over a feed that may hold a malformed play *)

UpstreamMalformed == Publish(MalformedTemplates, MaxMalformed)

MalformedFeed ==
    \E la \in 0..Len(plays), client \in Clients, nba \in BOOLEAN, llm \in BOOLEAN :
      \E recent_only \in (IF la = 0 THEN BOOLEAN ELSE {FALSE}) :
        \E stale \in SUBSET (viewers.set \ {client}) :
            IF LivePath(la) /\ ReachesMalformed(la, recent_only)
            THEN /\ reqs < MaxReqs
                 /\ reqs' = reqs + 1
                 /\ UNCHANGED <<envVars, fs, wr, daemon, refine, writable, tracker, loop,
                                recent, polling>>
                 /\ parked' = OtherGameEntries(parked)
                 /\ ServeLiveRaises(la, client, stale, recent_only, llm)
            ELSE /\ Feed(la, client, stale, recent_only, nba, llm)
                 /\ UNCHANGED polling

MalformedNext == MalformedFeed \/ Tipoff \/ UpstreamMalformed

MalformedSpec == Init /\ [][MalformedNext]_vars

----------------------------------------------------------------------------
(* The handler over a feed whose score can go down (a provider's score     *)
(* correction): the next play carries a home score one point lower          *)

MaxRegress == 3

RegressTemplates == {Home3, Away2Dunk}

UpstreamScores == Publish(RegressTemplates, MaxRegress)

UpstreamRegression ==
    /\ gstatus = "Live"
    /\ Len(plays) < MaxRegress
    /\ LastHome(plays) > 0
    /\ plays' = Append(plays, [NextPlay(plays, Away2Dunk) EXCEPT
                                  !.home_score = LastHome(plays) - 1])
    /\ obs' = IdleObs
    /\ UNCHANGED <<gstatus, disk, memVars, reqs, emitted, ioVars>>

RegressionNext == FeedRequest \/ Tipoff \/ UpstreamScores \/ UpstreamRegression

RegressionSpec == Init /\ [][RegressionNext]_vars

----------------------------------------------------------------------------
(* The handler while the history directory may refuse writes (disk full,   *)
(* permissions) and accept them again                                       *)

MaxFaultPlays == 2

FaultTemplates == {Home2}

UpstreamFaultPlay == Publish(FaultTemplates, MaxFaultPlays)

DiskFails ==
    /\ writable
    /\ writable' = FALSE
    /\ obs' = IdleObs
    /\ UNCHANGED <<envVars, disk, memVars, reqs, emitted, fs, wr, daemon, refine,
                   parked, tracker, loop, recent, polling>>

DiskRecovers ==
    /\ ~writable
    /\ writable' = TRUE
    /\ obs' = IdleObs
    /\ UNCHANGED <<envVars, disk, memVars, reqs, emitted, fs, wr, daemon, refine,
                   parked, tracker, loop, recent, polling>>

FaultNext ==
    FeedRequest \/ Tipoff \/ UpstreamFaultPlay \/ GameEnds \/ DiskFails \/ DiskRecovers

FaultSpec == Init /\ [][FaultNext]_vars

----------------------------------------------------------------------------
(* Requests for two games in turn *)

UpstreamTwoGamePlay == Publish(TwoGameTemplates, MaxTwoGamePlays)

\* the next request names the other game
Switch ==
    /\ parked' = Entries(CHOOSE g \in GameIds : g # parked.id, plays, gstatus,
                         disk, hist, leadChanges, largestLeads, playerStats,
                         announced, viewers, emitted)
    /\ plays' = parked.plays
    /\ gstatus' = parked.gstatus
    /\ disk' = parked.disk
    /\ hist' = parked.hist
    /\ leadChanges' = parked.leadChanges
    /\ largestLeads' = parked.largestLeads
    /\ playerStats' = parked.playerStats
    /\ announced' = parked.announced
    /\ viewers' = parked.viewers
    /\ emitted' = parked.emitted
    /\ obs' = IdleObs
    /\ UNCHANGED <<reqs, fs, wr, daemon, refine, writable, tracker, loop, recent,
                   polling>>

TwoGameNext == FeedRequest \/ Tipoff \/ UpstreamTwoGamePlay \/ GameEnds \/ Switch

TwoGameSpec == Init /\ [][TwoGameNext]_vars

----------------------------------------------------------------------------
(* Calls of the refinement by the composer *)

Refine ==
    \E imported, enabled, client \in BOOLEAN, bot_type \in BotTypes,
       gist \in Gists, answer \in Answers :
        LET r == ComposerRefine(imported, refine.cache, enabled, client,
                                bot_type, gist, answer)
        IN  /\ refine' = [cache |-> r.cache,
                          last |-> [called |-> TRUE, imported |-> imported,
                                    enabled |-> enabled, client |-> client,
                                    bot_type |-> bot_type, gist |-> gist,
                                    answer |-> answer, text |-> r.text,
                                    hit |-> r.hit, raised |-> r.raised]]
            /\ UNCHANGED <<envVars, disk, memVars, reqs, emitted, obs, fs, wr, daemon,
                           writable, parked, tracker, loop,
                           recent, polling>>

RefineNext == Refine

RefineSpec == Init /\ [][RefineNext]_vars

----------------------------------------------------------------------------
(* check_stat_milestones on a stat line that was rebuilt or has grown since *)
(* the last check (a restart replays the whole play list into the ledger    *)
(* before any check runs)                                                    *)

LinePts == {0, 10, 30, 40, 45}
LineReb == {0, 10}
LineAst == {0, 10}
LineBlk == {0, 5, 10}
LineStl == {0, 5, 10}

\* the stat lines of the checks
StatLines ==
    [pts : LinePts, reb : LineReb, ast : LineAst, blk : LineBlk, stl : LineStl]

\* the ledger of player A becomes a stat line with no counter below its own
LineGrows ==
    \E led \in StatLines :
        LET old == IF "A" \in DOMAIN playerStats.by THEN playerStats.by["A"]
                   ELSE ZeroLedger
        IN  /\ led # old
            /\ \A c \in {"pts", "reb", "ast", "blk", "stl"} : led[c] >= old[c]
            /\ playerStats' = [present |-> TRUE, by |-> [p \in {"A"} |-> led]]
            /\ obs' = IdleObs
            /\ UNCHANGED <<envVars, disk, hist, leadChanges, largestLeads,
                           announced, viewers, reqs, emitted, ioVars>>

\* check_stat_milestones(game_id, 'A', game_info)
MilestoneCheck ==
    \E chk \in {CheckStatMilestones(playerStats, announced, "A")} :
        /\ playerStats.present
        /\ reqs < MaxChecks
        /\ reqs' = reqs + 1
        /\ announced' = chk.ann
        /\ emitted' = Emit(emitted, chk.msgs)
        /\ obs' = [IdleObs EXCEPT !.op = "check", !.msgs = chk.msgs]
        /\ UNCHANGED <<envVars, disk, hist, leadChanges, largestLeads,
                       playerStats, viewers, ioVars>>

CheckNext == LineGrows \/ MilestoneCheck

CheckSpec == Init /\ [][CheckNext]_vars

----------------------------------------------------------------------------
(* The big-lead check of the loop over a game of large leads: each play     *)
(* carries the score and the period it is checked with                       *)

MaxLeadPlays == 3

LeadHomeScores == {0, 20, 30, 40}
LeadAwayScores == {0, 5, 10, 40}
LeadPeriods == {1, 2}

\* 'Check for big lead milestones' for the next play, whose score and period
\* are not below those of the play before
BigLeadCheck ==
    \E h \in LeadHomeScores, aw \in LeadAwayScores, period \in LeadPeriods :
        LET play == [NextPlay(plays, BlockA) EXCEPT !.home_score = h,
                                                    !.away_score = aw,
                                                    !.period = period]
            chk == IF Abs(h - aw) >= BigLeadMin
                   THEN CheckBigLeadMilestone(announced, h, aw, period)
                   ELSE [msgs |-> <<>>, ann |-> announced]
        IN  /\ Len(plays) < MaxLeadPlays
            /\ h >= LastHome(plays) /\ aw >= LastAway(plays)
            /\ plays # <<>> => period >= plays[Len(plays)].period
            /\ plays' = Append(plays, play)
            /\ announced' = chk.ann
            /\ emitted' = Emit(emitted, chk.msgs)
            /\ obs' = [IdleObs EXCEPT !.op = "big_lead", !.msgs = chk.msgs]
            /\ UNCHANGED <<gstatus, disk, hist, leadChanges, largestLeads,
                           playerStats, viewers, reqs, ioVars>>

BigLeadNext == BigLeadCheck

BigLeadSpec == Init /\ [][BigLeadNext]_vars

----------------------------------------------------------------------------
(* The handler over a game that runs into its third period *)

MaxPeriodPlays == 3

PeriodTemplates == {Home2, EndPeriod}

UpstreamPeriodPlay == Publish(PeriodTemplates, MaxPeriodPlays)

PeriodNext == FeedRequest \/ Tipoff \/ UpstreamPeriodPlay \/ GameEnds

PeriodSpec == Init /\ [][PeriodNext]_vars

----------------------------------------------------------------------------
(* The action-based tracker: _player_game_stats of one game.  The keys    *)
(* '3pm' and '3pa' are the fields tpm and tpa; name and team, which no    *)
(* test reads, are left out.                                              *)

MaxActions == 3
MaxCredits == 6

TrackedCategories == {"pts", "reb", "ast", "stl", "blk"}

TrackedCounters ==
    {"pts", "reb", "ast", "stl", "blk", "fgm", "fga", "ftm", "fta", "tpm", "tpa",
     "oreb", "dreb", "tov", "pf"}

\* the entry get_player_stats creates
ZeroTracked ==
    [pts |-> 0, reb |-> 0, ast |-> 0, stl |-> 0, blk |-> 0,
     fgm |-> 0, fga |-> 0, ftm |-> 0, fta |-> 0, tpm |-> 0, tpa |-> 0,
     oreb |-> 0, dreb |-> 0, tov |-> 0, pf |-> 0,
     announced_dd |-> FALSE, announced_td |-> FALSE,
     announced_pts_20 |-> FALSE, announced_pts_30 |-> FALSE,
     announced_pts_40 |-> FALSE]

\* the game's dict with the entry of player_id present
get_player_stats(tr, player_id) ==
    IF player_id \in DOMAIN tr THEN tr
    ELSE [q \in (DOMAIN tr) \cup {player_id} |->
             IF q = player_id THEN ZeroTracked ELSE tr[q]]

\* the double-double / triple-double chain: the entry and the messages
TrackedDoubles(st, player_id) ==
    LET double_cats == {c \in TrackedCategories : st[c] >= CategoryMin}
        n == Cardinality(double_cats)
        near5 == {c \in TrackedCategories : st[c] = CategoryMin - 1}
        near3 == {c \in {"pts", "reb", "ast"} : st[c] = CategoryMin - 1}
    IN  IF n >= 3 /\ ~st.announced_td
        THEN [st |-> [st EXCEPT !.announced_td = TRUE, !.announced_dd = TRUE],
              msgs |-> <<Msg("stats_nerd", "triple_double", "td", player_id, 0),
                         Msg("historian", "historical_context", "td", player_id, 0)>>]
        ELSE IF n >= 2 /\ ~st.announced_dd
        THEN [st |-> [st EXCEPT !.announced_dd = TRUE],
              msgs |-> <<Msg("stats_nerd", "double_double", "dd", player_id, 0),
                         Msg("historian", "historical_context", "dd", player_id, 0)>>]
        ELSE IF n = 2 /\ ~st.announced_td
        THEN [st |-> st,
              msgs |-> IF near5 # {}
                       THEN <<Msg("stats_nerd", "near_triple_double", "near_td", player_id, 0)>>
                       ELSE <<>>]
        ELSE IF n = 1 /\ ~st.announced_dd
        THEN [st |-> st,
              msgs |-> IF near3 # {}
                       THEN <<Msg("stats_nerd", "near_double_double", "near_dd", player_id, 0)>>
                       ELSE <<>>]
        ELSE [st |-> st, msgs |-> <<>>]

\* the scoring chain, highest tier first; a tier marks the tiers below it
TrackedScoring(st, player_id) ==
    IF st.pts >= 40 /\ ~st.announced_pts_40
    THEN [st |-> [st EXCEPT !.announced_pts_40 = TRUE, !.announced_pts_30 = TRUE,
                            !.announced_pts_20 = TRUE],
          msgs |-> <<Msg("stats_nerd", "high_scorer", "pts", player_id, 40),
                     Msg("historian", "historical_context", "pts", player_id, 40)>>]
    ELSE IF st.pts >= 30 /\ ~st.announced_pts_30
    THEN [st |-> [st EXCEPT !.announced_pts_30 = TRUE, !.announced_pts_20 = TRUE],
          msgs |-> <<Msg("stats_nerd", "high_scorer", "pts", player_id, 30),
                     Msg("historian", "historical_context", "pts", player_id, 30)>>]
    ELSE IF st.pts >= 20 /\ ~st.announced_pts_20
    THEN [st |-> [st EXCEPT !.announced_pts_20 = TRUE],
          msgs |-> <<Msg("stats_nerd", "scoring_update", "pts", player_id, 20)>>]
    ELSE [st |-> st, msgs |-> <<>>]

\* the block and steal tests: exactly 5, no flag
TrackedDefense(st, player_id) ==
    (IF st.blk = 5
     THEN <<Msg("stats_nerd", "defensive_milestone", "blk", player_id, 5),
            Msg("historian", "historical_context", "blk", player_id, 5)>>
     ELSE <<>>)
    \o (IF st.stl = 5
        THEN <<Msg("stats_nerd", "defensive_milestone", "stl", player_id, 5),
               Msg("historian", "historical_context", "stl", player_id, 5)>>
        ELSE <<>>)

\* returns the game's dict (the flags are set in place) and the messages
check_player_milestones(tr, player_id) ==
    LET t0 == get_player_stats(tr, player_id)
        d == TrackedDoubles(t0[player_id], player_id)
        s == TrackedScoring(d.st, player_id)
    IN  [tr |-> [t0 EXCEPT ![player_id] = s.st],
         msgs |-> d.msgs \o s.msgs \o TrackedDefense(s.st, player_id)]

\* an action of the play-by-play: desc is 'MISS' for a missed shot
TrackedAction(type, player_id, desc, sub_type, assist) ==
    [actionType |-> type, personId |-> player_id, description |-> desc,
     subType |-> sub_type, assistPersonId |-> assist]

TrackedActions ==
    {TrackedAction("2pt", "A", "", "", "B"),
     TrackedAction("2pt", "A", "MISS", "", "B"),
     TrackedAction("3pt", "A", "", "", ""),
     TrackedAction("3pt", "B", "MISS", "", ""),
     TrackedAction("freethrow", "A", "", "", ""),
     TrackedAction("freethrow", "A", "MISS", "", ""),
     TrackedAction("rebound", "A", "", "offensive", ""),
     TrackedAction("rebound", "A", "", "defensive", ""),
     TrackedAction("steal", "B", "", "", ""),
     TrackedAction("block", "A", "", "", ""),
     TrackedAction("turnover", "A", "", "", ""),
     TrackedAction("foul", "B", "", "", ""),
     TrackedAction("2pt", "", "", "", "")}

\* the counters of the player's entry after the if/elif chain on actionType
CountAction(st, action) ==
    LET made == action.description # "MISS"
        t == action.actionType
    IN  IF t = "2pt"
        THEN IF made THEN [st EXCEPT !.fga = @ + 1, !.fgm = @ + 1, !.pts = @ + 2]
             ELSE [st EXCEPT !.fga = @ + 1]
        ELSE IF t = "3pt"
        THEN IF made THEN [st EXCEPT !.fga = @ + 1, !.tpa = @ + 1, !.fgm = @ + 1,
                                     !.tpm = @ + 1, !.pts = @ + 3]
             ELSE [st EXCEPT !.fga = @ + 1, !.tpa = @ + 1]
        ELSE IF t = "freethrow"
        THEN IF made THEN [st EXCEPT !.fta = @ + 1, !.ftm = @ + 1, !.pts = @ + 1]
             ELSE [st EXCEPT !.fta = @ + 1]
        ELSE IF t = "rebound"
        THEN IF action.subType = "offensive"
             THEN [st EXCEPT !.reb = @ + 1, !.oreb = @ + 1]
             ELSE [st EXCEPT !.reb = @ + 1, !.dreb = @ + 1]
        ELSE IF t = "steal" THEN [st EXCEPT !.stl = @ + 1]
        ELSE IF t = "block" THEN [st EXCEPT !.blk = @ + 1]
        ELSE IF t = "turnover" THEN [st EXCEPT !.tov = @ + 1]
        ELSE IF t = "foul" THEN [st EXCEPT !.pf = @ + 1]
        ELSE st

\* the milestone check follows a made shot, a rebound, a steal and a block
ChecksAfter(action) ==
    \/ action.actionType \in {"2pt", "3pt", "freethrow"} /\ action.description # "MISS"
    \/ action.actionType \in {"rebound", "steal", "block"}

\* returns the game's dict and the milestone messages
update_player_stats(tr, action) ==
    IF action.personId = "" THEN [tr |-> tr, msgs |-> <<>>]
    ELSE LET player_id == action.personId
             t0 == get_player_stats(tr, player_id)
             t1 == [t0 EXCEPT ![player_id] = CountAction(@, action)]
             own == IF ChecksAfter(action) THEN check_player_milestones(t1, player_id)
                    ELSE [tr |-> t1, msgs |-> <<>>]
             assisted == /\ action.assistPersonId # ""
                         /\ action.actionType \in {"2pt", "3pt"}
                         /\ action.description # "MISS"
             t2 == get_player_stats(own.tr, action.assistPersonId)
             t3 == [t2 EXCEPT ![action.assistPersonId].ast = @ + 1]
             ast == check_player_milestones(t3, action.assistPersonId)
         IN  IF assisted THEN [tr |-> ast.tr, msgs |-> own.msgs \o ast.msgs]
             ELSE own

\* the entry of a player, zeros when the tracker has none
TrackedOf(p) == IF p \in DOMAIN tracker THEN tracker[p] ELSE ZeroTracked

\* the counted actions applied to a player's entry so far
ActionsOf(p) ==
    LET st == TrackedOf(p)
    IN  st.fga + st.fta + st.reb + st.stl + st.blk + st.tov + st.pf

\* one action of the play-by-play goes through update_player_stats
Tracked ==
    \E action \in TrackedActions :
        \E r \in {update_player_stats(tracker, action)} :
            /\ ActionsOf("A") + ActionsOf("B") < MaxActions
            /\ tracker' = r.tr
            /\ obs' = [IdleObs EXCEPT !.op = "tracked", !.msgs = r.msgs]
            /\ UNCHANGED <<envVars, disk, memVars, reqs, emitted, fs, wr, daemon,
                           refine, writable, parked, loop, recent, polling>>

\* the plays credited to the live ledger so far, by what they added
LedgerTotal ==
    LET led(p) == IF p \in DOMAIN playerStats.by THEN playerStats.by[p] ELSE ZeroLedger
        total(p) == led(p).pts + led(p).reb + led(p).ast + led(p).blk + led(p).stl
    IN  total("A") + total("B")

\* one play goes through the live ledger and its milestone check
Credited ==
    \E t \in LedgerTemplates \cup {BlockA} :
        /\ LedgerTotal < MaxCredits
        /\ LedgerPlay(t)

TrackerNext == Tracked \/ Credited

TrackerSpec == Init /\ [][TrackerNext]_vars

----------------------------------------------------------------------------
(* recent_games.json: update_recent_games (src/live_daemon.py) and          *)
(* update_recent_games_with_final (src/app.py).  A game of the list is its  *)
(* id; both functions test and insert by id alone.                          *)

RecentLimit == 10

\* games[:10]
FirstGames(games) ==
    SubSeq(games, 1, IF Len(games) < RecentLimit THEN Len(games) ELSE RecentLimit)

\* an update that inserts without looking for the id
InsertRecent(games, game_id) ==
    [games |-> FirstGames(<<game_id>> \o games),
     ret |-> TRUE]

\* returns False and leaves the file when the id is in the list; else
\* inserts the game at the front, keeps the first ten, saves, returns True
update_recent_games(games, game_id) ==
    IF \E i \in 1..Len(games) : games[i] = game_id
    THEN [games |-> games, ret |-> FALSE]
    ELSE [games |-> FirstGames(<<game_id>> \o games),
          ret |-> TRUE]

\* the variable after an update for game_id
RecentAfter(game_id) ==
    LET r == update_recent_games(recent.games, game_id)
    IN  [games |-> r.games, id |-> game_id, ret |-> r.ret, before |-> recent.games]

----------------------------------------------------------------------------
(* run_daemon's main loop for today's game.  One step is one pass of the   *)
(* loop body, up to its sleep; the clock advances by the sleep.            *)

IDLE_INTERVAL == 60
PREGAME_INTERVAL == 30
LIVE_INTERVAL == 30
POSTGAME_WAIT == 300

MaxClock == 900
MaxDaemonPlays == 1

\* the id of today's game
TodaysGame == 1

\* where final processing raises: nowhere, in save_snapshot (before any
\* update), or in the saving of the player stats (after the updates)
FinalFaults == {"none", "snapshot", "player_stats"}

\* a test that runs final processing for any Final game not yet finished
FinalSeen(l, game_id) == ~l.game_finished

\* 'if current_game_id == game_id and not game_finished'
FinalDue(l, game_id) == l.current_game_id = game_id /\ ~l.game_finished

\* the locals after 'if game_finished and postgame_time'; waiting says that
\* the pass sleeps and continues
AfterPostgame(l) ==
    IF l.game_finished /\ l.postgame_time # 0
    THEN IF l.now < l.postgame_time
         THEN [l |-> l, waiting |-> TRUE]
         ELSE [l |-> [l EXCEPT !.game_finished = FALSE, !.postgame_time = 0,
                               !.current_game_id = 0],
               waiting |-> FALSE]
    ELSE [l |-> l, waiting |-> FALSE]

\* the sleep that ends the pass
Slept(l, interval) == [l EXCEPT !.now = @ + interval]

\* one pass of the loop: found says that get_todays_game returned the game,
\* soon that tip-off is at most PREGAME_START_MINUTES away, fault where
\* final processing raises
DaemonPass(found, soon, fault) ==
    /\ loop.now < MaxClock
    /\ obs' = IdleObs
    /\ UNCHANGED <<envVars, disk, memVars, reqs, emitted, fs, wr, daemon, refine,
                   writable, parked, tracker, polling>>
    /\ \E a \in {AfterPostgame(loop)} :
         IF a.waiting
         THEN /\ loop' = Slept(a.l, LIVE_INTERVAL)
              /\ UNCHANGED recent
         ELSE IF ~found
         THEN /\ loop' = Slept(a.l, IDLE_INTERVAL)
              /\ UNCHANGED recent
         ELSE IF gstatus = "Final"
         THEN IF FinalDue(a.l, TodaysGame)
              THEN IF fault = "snapshot"
                   THEN /\ loop' = Slept([a.l EXCEPT !.begun = @ + 1], IDLE_INTERVAL)
                        /\ UNCHANGED recent
                   ELSE IF fault = "player_stats"
                   THEN /\ loop' = Slept([a.l EXCEPT !.begun = @ + 1], IDLE_INTERVAL)
                        /\ recent' = RecentAfter(TodaysGame)
                   ELSE /\ loop' = Slept([a.l EXCEPT !.begun = @ + 1,
                                                      !.done = @ + 1,
                                                      !.game_finished = TRUE,
                                                      !.postgame_time = a.l.now + POSTGAME_WAIT],
                                         IDLE_INTERVAL)
                        /\ recent' = RecentAfter(TodaysGame)
              ELSE /\ loop' = Slept(a.l, IDLE_INTERVAL)
                   /\ UNCHANGED recent
         ELSE IF LastHome(plays) > 0 \/ LastAway(plays) > 0
         THEN /\ loop' = Slept([a.l EXCEPT !.current_game_id = TodaysGame], LIVE_INTERVAL)
              /\ UNCHANGED recent
         ELSE IF soon
         THEN /\ loop' = Slept([a.l EXCEPT !.current_game_id = TodaysGame],
                               PREGAME_INTERVAL)
              /\ UNCHANGED recent
         ELSE /\ loop' = Slept(a.l, IDLE_INTERVAL)
              /\ UNCHANGED recent

DaemonLoop ==
    \E found, soon \in BOOLEAN, fault \in FinalFaults : DaemonPass(found, soon, fault)

DaemonTemplates == {Home2}

UpstreamDaemonPlay == Publish(DaemonTemplates, MaxDaemonPlays)

DaemonNext == DaemonLoop \/ Tipoff \/ UpstreamDaemonPlay \/ GameEnds

DaemonSpec == Init /\ [][DaemonNext]_vars

-----------------------------------------------------------------------------
(* A client of the feed page: it polls the feed with the last_action of the *)
(* previous response (0 on its first request) and appends the messages of   *)
(* each response to its chat.  polling.la is the value it passes next,      *)
(* polling.seen the plays whose messages it has received, polling.twice the *)
(* plays whose messages came in more than one response                      *)

\* the plays the messages of a response belong to
PlaysOfMessages(msgs) ==
    {n \in {msgs[i].action_number : i \in 1..Len(msgs)} : n >= 1}

\* the client after the response: an error response leaves its state alone
Polled(c, response) ==
    IF response.code # 200 THEN c
    ELSE [la |-> response.last_action,
          seen |-> c.seen \cup PlaysOfMessages(response.msgs),
          twice |-> c.twice \cup (c.seen \cap PlaysOfMessages(response.msgs))]

\* a request to the feed: the polling client's next poll (own), or a request
\* of another page with any last_action
ClientPoll ==
    \E own \in BOOLEAN :
      \E la \in (IF own THEN {polling.la} ELSE 0..Len(plays)) :
        \E client \in Clients, nba \in BOOLEAN, llm \in BOOLEAN :
          \E recent_only \in (IF la = 0 THEN BOOLEAN ELSE {FALSE}) :
            \E stale \in SUBSET (viewers.set \ {client}) :
                /\ Feed(la, client, stale, recent_only, nba, llm)
                /\ polling' = IF own THEN Polled(polling, obs') ELSE polling

MaxClientPlays == 3
ClientTemplates == {Home2}

UpstreamClientPlay == Publish(ClientTemplates, MaxClientPlays)

ClientNext ==
    \/ ClientPoll
    \/ Tipoff
    \/ UpstreamClientPlay
    \/ GameEnds
    \/ Restart
    \/ DaemonWarm

ClientSpec == Init /\ [][ClientNext]_vars

-----------------------------------------------------------------------------
(* The recent-games list over a season: the daemon's final processing and   *)
(* the web process's /api/live both record completed games.  A call is for  *)
(* the next game, for the latest one again (final processing repeated after *)
(* an error, or /api/live polled again), or for the first game of the      *)
(* list's history (which is the one the list drops first)                   *)

MaxGames == 12

SaveOutcomes == {"saved", "unwritten"}

\* update_recent_games_with_final: as the daemon's function, but save_cache
\* swallows the error of a file that cannot be opened for writing, and the
\* function then returns False with the file as it was
update_recent_games_with_final(games, balldontlie_id, save) ==
    IF \E i \in 1..Len(games) : games[i] = balldontlie_id
    THEN [games |-> games, ret |-> FALSE]
    ELSE IF save = "saved"
    THEN [games |-> FirstGames(<<balldontlie_id>> \o games), ret |-> TRUE]
    ELSE [games |-> games, ret |-> FALSE]

\* the latest game a call was made for
LatestGame ==
    SetMax({recent.id} \cup {recent.games[i] : i \in 1..Len(recent.games)})

\* the ids a call is made with
CallIds ==
    {id \in {1, LatestGame, LatestGame + 1} : id >= 1 /\ id <= MaxGames}

\* the daemon's final processing reaches update_recent_games
DaemonRecent ==
    \E game_id \in CallIds :
        /\ recent' = RecentAfter(game_id)
        /\ obs' = [IdleObs EXCEPT !.op = "recent"]
        /\ UNCHANGED <<envVars, disk, memVars, reqs, emitted, fs, wr, daemon,
                       refine, writable, parked, tracker, loop, polling>>

\* GET /api/live finds the game Final
ApiLiveRecent ==
    \E game_id \in CallIds, save \in SaveOutcomes :
        \E r \in {update_recent_games_with_final(recent.games, game_id, save)} :
            /\ recent' = [games |-> r.games, id |-> game_id, ret |-> r.ret,
                          before |-> recent.games]
            /\ obs' = [IdleObs EXCEPT !.op = "recent"]
            /\ UNCHANGED <<envVars, disk, memVars, reqs, emitted, fs, wr, daemon,
                           refine, writable, parked, tracker, loop, polling>>

RecentNext == DaemonRecent \/ ApiLiveRecent

RecentSpec == Init /\ [][RecentNext]_vars

----------------------------------------------------------------------------
(* Properties *)

\* the number of stored messages with key k
Copies(msgs, k) == Cardinality({i \in 1..Len(msgs) : MsgKey(msgs[i]) = k})

\* C1: in the append step of a feed request, a candidate whose
\* (action_number, bot, type) key is already stored leaves the stored copies
\* of that key as they were and adds nothing; a candidate whose key is not
\* stored is appended exactly once, however often the batch offers it, and
\* its key is in the key set afterwards; the stored list only grows at its
\* end, by the number of new keys.
C1_AppendDedup ==
    obs.op = "live" =>
        /\ SubSeq(obs.post, 1, Len(obs.pre)) = obs.pre
        /\ Len(obs.post) - Len(obs.pre)
             = Cardinality(KeysOf(obs.cand) \ KeysOf(obs.pre))
        /\ \A i \in 1..Len(obs.cand) :
             LET k == MsgKey(obs.cand[i])
             IN  IF k \in KeysOf(obs.pre)
                 THEN Copies(obs.post, k) = Copies(obs.pre, k)
                 ELSE /\ Copies(obs.post, k) = 1
                      /\ \E j \in 1..i : /\ MsgKey(obs.cand[j]) = k
                                        /\ obs.cand[j] \in Range(obs.post)
                      /\ k \in obs.postKeys

\* an append step that met a stored key, a new key, and a key that the
\* batch offered twice
C1_Witness ==
    /\ obs.op = "live"
    /\ \E i \in 1..Len(obs.cand) : MsgKey(obs.cand[i]) \in KeysOf(obs.pre)
    /\ \E i, j \in 1..Len(obs.cand) :
         /\ i < j
         /\ MsgKey(obs.cand[i]) = MsgKey(obs.cand[j])
         /\ MsgKey(obs.cand[i]) \notin KeysOf(obs.pre)

\* no two messages of msgs share a key
UniqueKeys(msgs) ==
    \A i, j \in 1..Len(msgs) : MsgKey(msgs[i]) = MsgKey(msgs[j]) => i = j

\* C2: in every reachable state, no two messages of the History share the
\* same (action_number, bot, type), in memory and in the game's file.
C2_UniqueKeys == UniqueKeys(hist.messages) /\ UniqueKeys(disk.messages)

\* the ledgers of one single pass over the first n plays
SinglePass(n) == TrackAll(NoStats, SubSeq(plays, 1, n)).by

\* C3: every play is applied to the per-player ledger at most once: the
\* ledgers always equal the totals of one single pass over the plays the
\* requests have seen.
C3_SinglePass ==
    playerStats.present => \E n \in 0..Len(plays) : playerStats.by = SinglePass(n)

\* the keys of the statistical milestones of player p
PlayerMilestoneKeys(p) ==
    {<<p, "double_double", 0>>, <<p, "triple_double", 0>>}
    \cup {<<p, "pts", t>> : t \in ScoringTiers}
    \cup {<<p, "blk", t>> : t \in DefensiveTiers}
    \cup {<<p, "stl", t>> : t \in DefensiveTiers}

\* C4: for each player and milestone key (double-double, triple-double, each
\* scoring, blocks and steals tier) at most one milestone message is ever
\* produced, over any sequence of plays and feed requests, process restarts
\* included.
C4_MilestoneAtMostOnce ==
    \A p \in Players : \A k \in PlayerMilestoneKeys(p) : EmittedCount(k) <= 1

\* the ledger of player p (zeros when the player has none)
LedgerOf(p) ==
    IF p \in DOMAIN playerStats.by THEN playerStats.by[p] ELSE ZeroLedger

\* C5: a player whose stats have crossed 10/10/10 (points/rebounds/assists)
\* and reached 12/14/11, the milestone check following the ledger mutations,
\* has exactly one triple-double message and no double-double message.
C5_TripleDoubleOnly ==
    \A p \in Players :
        (LedgerOf(p).pts >= 12 /\ LedgerOf(p).reb >= 14 /\ LedgerOf(p).ast >= 11)
        => /\ EmittedCount(<<p, "triple_double", 0>>) = 1
           /\ EmittedCount(<<p, "double_double", 0>>) = 0

\* C6: no 20-point message is ever produced, each scoring tier is announced
\* at most once as a player's point total grows, and a player with a
\* 40-point message has exactly one 30-point and one 40-point message.
C6_ScoringTiers ==
    \A p \in Players :
        /\ EmittedCount(<<p, "pts", 20>>) = 0
        /\ \A t \in ScoringTiers : EmittedCount(<<p, "pts", t>>) <= 1
        /\ EmittedCount(<<p, "pts", 40>>) >= 1
             => /\ EmittedCount(<<p, "pts", 30>>) = 1
                /\ EmittedCount(<<p, "pts", 40>>) = 1

\* away minus home after the play of order n (0 before the first play)
DiffAt(n) == IF n = 0 THEN 0 ELSE plays[n].away_score - plays[n].home_score

\* the order of the play the i-th play of the batch is compared with
CompareAt(i) == IF i = 1 THEN obs.la ELSE obs.batch[i - 1]

\* the lead goes strictly from one side to the other
StrictFlip(prev_diff, curr_diff) ==
    \/ prev_diff > 0 /\ curr_diff < 0
    \/ prev_diff < 0 /\ curr_diff > 0

\* the lead-change messages the loop produced for the play of order n
LeadChangesAt(n) ==
    Len(SelectSeq(obs.cand, LAMBDA m : m.type = "lead_change" /\ m.action_number = n))

\* the plays of the batch at which the lead flipped
FlipsOfBatch ==
    {i \in 1..Len(obs.batch) :
        StrictFlip(DiffAt(CompareAt(i)), DiffAt(obs.batch[i]))}

\* C7: in the loop of a feed request exactly one lead-change fires for a
\* play when the score difference goes strictly from one side leading to
\* the other between the play it is compared with and the play, none fires
\* otherwise (none when the new score is a tie), and the lead-change count
\* grows by one per fired lead-change.
C7_LeadChange ==
    obs.op = "live" =>
        /\ \A i \in 1..Len(obs.batch) :
             /\ LeadChangesAt(obs.batch[i]) = (IF i \in FlipsOfBatch THEN 1 ELSE 0)
             /\ DiffAt(obs.batch[i]) = 0 => LeadChangesAt(obs.batch[i]) = 0
        /\ obs.fired = Cardinality(FlipsOfBatch)
        /\ obs.lcLoop = obs.lc0 + obs.fired

\* a request whose batch held two changes of lead, one each way, both
\* counted
C7_Witness ==
    /\ obs.op = "live"
    /\ obs.fired = 2
    /\ obs.lcLoop = obs.lc0 + 2
    /\ \E i, j \in FlipsOfBatch : DiffAt(obs.batch[i]) < 0 /\ DiffAt(obs.batch[j]) > 0

\* no two adjacent entries of the timeline have the same (home, away) pair
NoRepeat(scores) ==
    \A i \in 1..(Len(scores) - 1) :
        <<scores[i].home, scores[i].away>> # <<scores[i + 1].home, scores[i + 1].away>>

\* C8: a score is appended to the score timeline only if its (home, away)
\* pair differs from the last recorded entry: no two adjacent entries of the
\* timeline, in memory or in the file, have the same pair, and an
\* incremental request leaves the timeline as it was when the score is the
\* last recorded one and adds one entry when it is not.
C8_ScoreTimeline ==
    /\ NoRepeat(hist.scores)
    /\ NoRepeat(disk.scores)
    /\ (obs.op = "live" /\ obs.la > 0 /\ hist.scores # <<>>)
        => LET last == hist.scores[Len(hist.scores)]
           IN  /\ last.home = LastHome(plays)
               /\ last.away = LastAway(plays)

\* an incremental request met the score of the last recorded entry again
\* and recorded nothing
C8_Witness ==
    /\ obs.op = "live"
    /\ obs.la > 0
    /\ hist.scores # <<>>
    /\ hist.scores[Len(hist.scores)].action < hist.last_action
    /\ hist.scores[Len(hist.scores)].home = LastHome(plays)
    /\ hist.scores[Len(hist.scores)].away = LastAway(plays)

\* C9: when a request finds the game Final while no message of it is
\* stored, in memory or in the file, and the feed has plays, the file
\* afterwards holds a History of status Final whose messages are not empty
\* and equal the messages of processing the play list from scratch.
C9_RestartReconstruction ==
    obs.emptyFinal =>
        /\ disk.present
        /\ disk.status = "Final"
        /\ disk.messages # <<>>
        /\ \E llm \in BOOLEAN : disk.messages = RegenMessages(plays, llm)

\* C10: once the file holds a History of status Final, no later step
\* changes its messages, score timeline, lead_changes, last_action or
\* final_score, and a feed request with last_action > 0 is answered with no
\* messages.
C10_FinalReadOnly ==
    [][ (disk.present /\ disk.status = "Final")
        => /\ disk'.present
           /\ disk'.status = "Final"
           /\ disk'.messages = disk.messages
           /\ disk'.scores = disk.scores
           /\ disk'.lead_changes = disk.lead_changes
           /\ disk'.last_action = disk.last_action
           /\ disk'.final_score = disk.final_score
           /\ (reqs' # reqs /\ obs'.la > 0) => obs'.msgs = <<>> ]_vars

\* a fresh load and an incremental poll were both served from a History
\* that was already Final in the file
C10_Witness ==
    /\ disk.present
    /\ disk.status = "Final"
    /\ disk.messages # <<>>
    /\ obs.op = "final"
    /\ obs.la > 0
    /\ reqs = MaxReqs

\* the content of the file at the final path
FinalContent == fs.inodes[fs.final]

\* C11: at every point of the saves of a game's file, crashes and
\* concurrent writers included, the file at the final path holds the complete
\* previous version or one complete new version, never partial or
\* interleaved content.
C11_AtomicFile ==
    \E w \in Writers \cup {"init"}, n \in 0..MaxSaves : FinalContent = Complete(w, n)

\* C12: the daemon's write of the game's file loses no update of a feed
\* request: the messages the file holds when the daemon writes are in the
\* file afterwards, and a file of status Final stays Final.
C12_NoLostUpdate ==
    [][ (daemon.pc = "loaded" /\ daemon'.pc = "idle")
        => /\ disk'.messages = disk.messages
           /\ disk.status = "Final" => disk'.status = "Final" ]_vars

\* the dicts of a process that has not seen the game
FreshDicts ==
    [lc |-> NoLeadChanges, ll |-> NoLargestLeads, stats |-> NoStats,
     ann |-> NoAnnounced, em |-> <<>>, hist |-> NoHist]

\* largest leads, lead-change count and ledgers after the handler has
\* processed the play list ps on fresh dicts, for a request with last_action
\* la and recent_only
FreshReplay(ps, la, recent_only) ==
    LET P == ProcessOn(FreshDicts, ps, la, recent_only, FALSE)
    IN  <<P.ll, P.lc, P.stats>>

\* C13: the largest leads, the lead-change count and the per-player ledgers
\* a request leaves after processing the play list on a fresh state are the
\* ones every processing of the same play list on a fresh state leaves.
C13_ReplayIdempotent ==
    (obs.op = "live" /\ obs.fresh /\ plays # <<>>)
    => \A la \in 0..Len(plays), recent_only \in BOOLEAN :
          <<largestLeads, leadChanges, playerStats>>
              = FreshReplay(plays, la, recent_only)

\* the last call could reach the collaborator: the function is imported,
\* refinement is enabled, a client exists and the persona is known
Available ==
    /\ refine.last.imported
    /\ refine.last.enabled
    /\ refine.last.client
    /\ refine.last.bot_type \in BOT_PERSONAS

\* the collaborator answered with nothing: no content block, or a text that
\* is blank
EmptyResponse(answer) ==
    \/ answer.kind = "no_content"
    \/ answer.kind = "text" /\ Strip(answer.text) = <<>>

\* C14: the refinement returns the gist unchanged whenever refinement is
\* disabled, no client is available, the persona is unknown, or the call
\* raises, times out or answers with an empty response (and nothing is cached
\* for the gist); it returns another text only when the collaborator answered
\* with a text or a cached answer exists, and it never raises.
C14_RefineOptional ==
    refine.last.called =>
        /\ ~refine.last.raised
        /\ ~Available => refine.last.text = refine.last.gist
        /\ (Available /\ ~refine.last.hit
              /\ \/ refine.last.answer.kind \in {"raises", "timeout"}
                 \/ EmptyResponse(refine.last.answer))
              => refine.last.text = refine.last.gist
        /\ refine.last.text # refine.last.gist
              => /\ Available
                 /\ refine.last.hit \/ refine.last.answer.kind = "text"

\* C15: a play that cannot be processed is skipped: a live request over a
\* feed with a malformed play is answered with HTTP 200, and every
\* well-formed play of the current and the previous period that is newer
\* than last_action is processed.
C15_MalformedSkipped ==
    (obs.op = "live" /\ HasMalformed(plays)) =>
        /\ obs.code = 200
        /\ \A i \in 1..Len(plays) :
              (/\ ~Malformed(plays[i])
               /\ plays[i].order > obs.la
               /\ plays[i].period >= PeriodAfter(plays) - 1)
                  => plays[i].order \in Range(obs.batch)

\* play i of the list has a home or away score lower than the play before
Regressed(ps, i) ==
    /\ i > 1
    /\ \/ ps[i].home_score < ps[i - 1].home_score
       \/ ps[i].away_score < ps[i - 1].away_score

\* the plays of the list that are not regressed
Accepted(ps) == {i \in 1..Len(ps) : ~Regressed(ps, i)}

\* C16: a play whose home or away score is lower than the score of the
\* play before it is rejected: no message of a live response belongs to
\* it, and no largest-lead value exceeds the leads of the other plays.
C16_RegressionRejected ==
    obs.op = "live" =>
        /\ \A i \in 1..Len(plays), k \in 1..Len(obs.msgs) :
              Regressed(plays, i) => obs.msgs[k].action_number # plays[i].order
        /\ \A i \in 1..Len(plays) :
              Regressed(plays, i) =>
                 /\ largestLeads.home <= SetMax({0} \cup {plays[j].home_score - plays[j].away_score : j \in Accepted(plays)})
                 /\ largestLeads.away <= SetMax({0} \cup {plays[j].away_score - plays[j].home_score : j \in Accepted(plays)})

\* C17: a failed write of the History is made up for by the next request:
\* after a request of a Final game that was answered with 200 while the
\* directory accepts writes, the file holds the Final History with every
\* message of the in-memory History.
C17_FinalPersisted ==
    (/\ obs.op \in {"live", "generated", "final"}
     /\ obs.code = 200
     /\ writable
     /\ gstatus = "Final"
     /\ hist.present /\ hist.status = "Final")
        => /\ disk.present
           /\ disk.status = "Final"
           /\ disk.messages = hist.messages

C19_NoHistoryYet ==
    [][(reqs' # reqs /\ ~disk.present)
          => (obs'.code = 200 /\ obs'.op \in {"pregame", "live"})]_vars

\* the margins by which the home side led at a play of the list
HomeMargins(ps) ==
    {ps[i].home_score - ps[i].away_score : i \in {j \in 1..Len(ps) : ps[j].home_score > ps[j].away_score}}

\* the margins by which the away side led at a play of the list
AwayMargins(ps) ==
    {ps[i].away_score - ps[i].home_score : i \in {j \in 1..Len(ps) : ps[j].away_score > ps[j].home_score}}

CheckTags == {obs.msgs[i].tag : i \in 1..Len(obs.msgs)}

\* the scoring tiers player p has reached
TiersReached(p) == {t \in ScoringTiers : LedgerOf(p).pts >= t}

\* C21: a check of a player at 40 or more points (below 50) with no scoring
\* tier announced produces exactly one scoring message, for the 40 tier, and
\* leaves the 30 tier announced, so that no later check produces a 30-point
\* message.
C21_HighestScoringTier ==
    [][(/\ obs'.op = "check"
        /\ LedgerOf("A").pts >= 40 /\ LedgerOf("A").pts < 50
        /\ \A t \in ScoringTiers : <<"A", "pts", t>> \notin announced.keys)
          => /\ {k \in CheckTags' : k[2] = "pts"} = {<<"A", "pts", 40>>}
             /\ <<"A", "pts", 30>> \in announced'.keys
             /\ <<"A", "pts", 40>> \in announced'.keys]_vars

\* C22: for blocks and for steals, each tier yields at most one message per
\* game however many checks run at the same value, and a check that finds
\* tiers reached and not announced announces only the highest of them.
C22_DefensiveTiers ==
    [][obs'.op = "check" =>
          \A stat \in {"blk", "stl"} :
              /\ \A t \in DefensiveTiers : EmittedCount(<<"A", stat, t>>)' <= 1
              /\ LET open == {t \in DefensiveTiers :
                                 /\ LedgerOf("A")[stat] >= t
                                 /\ <<"A", stat, t>> \notin announced.keys}
                 IN  open # {} =>
                        {k \in CheckTags' : k[2] = stat} = {<<"A", stat, SetMax(open)>>}]_vars

\* the play just checked, its lead, leading side and highest tier reached
CheckedPlay == plays[Len(plays)]
CheckedLead == Abs(CheckedPlay.home_score - CheckedPlay.away_score)
CheckedLeader == IF CheckedPlay.home_score > CheckedPlay.away_score THEN HOME ELSE AWAY
CheckedTier == SetMax({t \in BigLeadTiers : CheckedLead >= t})

\* the big-lead keys of a side, tier and period
BigLeadKeys ==
    {<<s, "lead", t, q>> : s \in {HOME, AWAY}, t \in BigLeadTiers, q \in LeadPeriods}

C24_LowerTiersMarked ==
    (obs.op = "big_lead" /\ CheckedLead >= BigLeadMin) =>
        /\ \A t \in BigLeadTiers :
              (t < CheckedTier /\ obs.msgs # <<>>)
                 => <<CheckedLeader, "lead", t, CheckedPlay.period>> \in announced.keys
        /\ (/\ CheckedLead < 30
            /\ <<CheckedLeader, "lead", 30, CheckedPlay.period>> \in announced.keys)
              => obs.msgs = <<>>

\* the categories in which player p has at least 10
Categories10(p) ==
    {c \in {"pts", "reb", "ast", "stl", "blk"} : LedgerOf(p)[c] >= CategoryMin}

\* C25: a check of a player with at least 10 in any three of the five
\* categories and no triple-double announced produces a triple-double
\* message and no double-double message.
C25_TripleDoubleAnyThree ==
    [][(/\ obs'.op = "check"
        /\ Cardinality(Categories10("A")) >= 3
        /\ <<"A", "triple_double", 0>> \notin announced.keys)
          => /\ <<"A", "triple_double", 0>> \in CheckTags'
             /\ <<"A", "double_double", 0>> \notin CheckTags']_vars

\* the orders of the plays that have a message in a list of messages
Narrated(msgs) == {msgs[i].action_number : i \in 1..Len(msgs)}

\* C26: a History persisted with status Final holds a message of every
\* scoring play of the game, whatever the periods of the plays and the
\* requests that were made while the game was live.
C26_FinalNarrativeComplete ==
    (disk.present /\ disk.status = "Final") =>
        \A i \in 1..Len(plays) :
            plays[i].scoring_play => plays[i].order \in Narrated(disk.messages)

\* C27: after a live request with last_action > 0 on a process that held no
\* state of the game, each largest-lead value is the maximum lead of its
\* side over all plays and the lead-change count is the number of strict
\* flips of the lead between consecutive plays of the whole history.
C27_RestartRebuild ==
    (obs.op = "live" /\ obs.fresh /\ obs.la > 0) =>
        /\ largestLeads.home = SetMax({0} \cup HomeMargins(plays))
        /\ largestLeads.away = SetMax({0} \cup AwayMargins(plays))
        /\ leadChanges.count =
              Cardinality({n \in 2..Len(plays) : StrictFlip(DiffAt(n - 1), DiffAt(n))})

\* a poll with last_action = 2 reached a process without state of a game in
\* which the lead had changed before play 2 and both sides had led
C27_Witness ==
    /\ obs.op = "live" /\ obs.fresh /\ obs.la = 2
    /\ StrictFlip(DiffAt(1), DiffAt(2))
    /\ leadChanges.count > 0
    /\ largestLeads.home > 0 /\ largestLeads.away > 0

\* the lead of the side ahead after the play of order n, and that side's
\* recorded largest lead
LeadAt(n) == Abs(DiffAt(n))
RecordedFor(n) == IF DiffAt(n) < 0 THEN largestLeads.home ELSE largestLeads.away

ScoringLeadsRecorded ==
    obs.op = "live" =>
        \A i \in 1..Len(obs.batch) :
            plays[obs.batch[i]].scoring_play
               => RecordedFor(obs.batch[i]) >= LeadAt(obs.batch[i])

SideLeadAt(team, n) == IF team = HOME THEN 0 - DiffAt(n) ELSE DiffAt(n)

\* the largest-lead messages among the candidates of the last request, as
\* pairs of the side and the play's order
LargestLeadMsgs ==
    {<<obs.cand[k].tag[2], obs.cand[k].action_number>> :
        k \in {j \in 1..Len(obs.cand) : obs.cand[j].type = "largest_lead"}}

\* C29: a live request emits a largest-lead message for a play only if the
\* play is a scoring play whose lead is at least 5 and strictly exceeds the
\* value recorded before it (the value held before the request and the
\* leads of the scoring plays processed earlier in the request; after a
\* rebuild over the full history no play exceeds it), and a scoring play
\* that sets a new largest lead below 5 raises the recorded value without
\* a message.
C29_LargestLeadMessage ==
    [][obs'.op = "live" =>
         /\ \A m \in LargestLeadMsgs' :
               LET team == m[1]
                   n == m[2]
                   lead == SideLeadAt(team, n)'
                   held == IF team = HOME THEN largestLeads.home ELSE largestLeads.away
               IN  /\ n \in Range(obs'.batch)
                   /\ plays'[n].scoring_play
                   /\ lead >= LargestLeadMin
                   /\ obs'.la > 0 /\ ~obs'.fresh
                   /\ lead > held
                   /\ \A j \in Range(obs'.batch) :
                         (j < n /\ plays'[j].scoring_play) => SideLeadAt(team, j)' < lead
         /\ \A n \in Range(obs'.batch) : \A team \in {HOME, AWAY} :
               LET lead == SideLeadAt(team, n)'
               IN  (plays'[n].scoring_play /\ lead > 0 /\ lead < LargestLeadMin)
                      => /\ <<team, n>> \notin LargestLeadMsgs'
                         /\ (IF team = HOME THEN largestLeads'.home
                                            ELSE largestLeads'.away) >= lead]_vars

\* an incremental request processed a scoring play that set a new largest
\* lead below 5 without a message and a later one of at least 5 with a
\* message
C29_Witness ==
    /\ obs.op = "live" /\ obs.la > 0 /\ ~obs.fresh
    /\ \E i, n \in Range(obs.batch) :
          /\ i < n
          /\ plays[i].scoring_play
          /\ SideLeadAt(HOME, i) > SideLeadAt(HOME, obs.la)
          /\ SideLeadAt(HOME, i) < LargestLeadMin
          /\ <<HOME, i>> \notin LargestLeadMsgs
          /\ <<HOME, n>> \in LargestLeadMsgs
          /\ largestLeads.home = SideLeadAt(HOME, n)

\* the counters of the entry of the live ledger
LedgerCounters == {"pts", "reb", "ast", "stl", "blk"}

\* C30: over every step that applies a play or an action, no counter of a
\* player's entry, in the live ledger or in the action-based tracker,
\* decreases, and a player's entry is never removed.
C30_CountersNeverDecrease ==
    [][/\ \A p \in DOMAIN playerStats.by :
             /\ p \in DOMAIN playerStats'.by
             /\ \A c \in LedgerCounters : playerStats'.by[p][c] >= playerStats.by[p][c]
       /\ \A p \in DOMAIN playerStats'.by :
             \A c \in LedgerCounters : playerStats'.by[p][c] >= 0
       /\ \A p \in DOMAIN tracker :
             /\ p \in DOMAIN tracker'
             /\ \A c \in TrackedCounters : tracker'[p][c] >= tracker[p][c]
       /\ \A p \in DOMAIN tracker' :
             \A c \in TrackedCounters : tracker'[p][c] >= 0]_vars

\* both ledgers have counted: a basket with an assist, a missed shot and a
\* rebound in the tracker, a basket and a rebound in the live ledger
C30_Witness ==
    /\ TrackedOf("A").pts > 0
    /\ TrackedOf("A").fga > TrackedOf("A").fgm
    /\ TrackedOf("B").ast > 0
    /\ LedgerOf("A").pts > 0
    /\ LedgerOf("A").reb > 0

\* the plays a live request with last_action la passes to
\* track_player_stats_from_play: the batch, and every play when the request
\* rebuilds from the full history
TrackedOrders ==
    Range(obs.batch) \cup (IF obs.la = 0 \/ obs.fresh THEN 1..Len(plays) ELSE {})

\* the candidates of the last request that are stat milestones of a player
StatMilestonesAt(n) ==
    {k \in 1..Len(obs.cand) :
        /\ obs.cand[k].action_number = n
        /\ obs.cand[k].type = "milestone"
        /\ obs.cand[k].tag[1] \in Players}

\* the ledgers after the last request as a play without a resolvable player
\* leaves them
UnresolvedKeepsLedgers ==
    \A n \in 1..Len(plays) :
        extract_player_from_text(plays[n]) = "" =>
            /\ TrackPlayerStats(playerStats, plays[n]).player = ""
            /\ TrackPlayerStats(playerStats, plays[n]).stats.by = playerStats.by
            /\ PlayMilestones(playerStats, announced, plays[n]).stats.by = playerStats.by
            /\ PlayMilestones(playerStats, announced, plays[n]).ann = announced
            /\ PlayMilestones(playerStats, announced, plays[n]).msgs = <<>>

C32_FinalProcessedOnce ==
    [][/\ loop.done > 0 => (loop'.begun = loop.begun /\ recent' = recent)
       /\ loop'.done > loop.done
             => /\ loop.current_game_id = TodaysGame
                /\ loop'.game_finished
                /\ loop'.postgame_time = loop.now + POSTGAME_WAIT
       /\ (loop.game_finished /\ loop'.now > loop.now)
             => IF loop.now < loop.postgame_time
                THEN loop' = [loop EXCEPT !.now = loop'.now]
                ELSE /\ ~loop'.game_finished
                     /\ loop'.current_game_id = 0
       /\ (loop'.done > 0 /\ ~loop'.game_finished)
             => loop'.current_game_id = 0]_vars

\* the post-game wait is over, the daemon is idle again and has polled the
\* Final game since
C32_Witness ==
    /\ loop.done = 1
    /\ ~loop.game_finished
    /\ loop.current_game_id = 0
    /\ gstatus = "Final"
    /\ loop.now > POSTGAME_WAIT + 2 * IDLE_INTERVAL

\* the strict sign flips between consecutive plays of the feed
FlipsSoFar ==
    Cardinality({n \in 2..Len(plays) : StrictFlip(DiffAt(n - 1), DiffAt(n))})

\* every play of the feed has been processed by a request of this process:
\* the History in memory holds a message of it
AllProcessed ==
    /\ hist.present
    /\ \A n \in 1..Len(plays) :
          \E k \in 1..Len(hist.messages) : hist.messages[k].action_number = n

\* C33: once every play of the feed has been processed, the in-memory
\* lead-change count equals the number of strict sign flips between
\* consecutive plays, however many requests were served and whatever
\* last_action they carried.
C33_CountEqualsFlips ==
    (obs.op = "live" /\ obs.code = 200 /\ leadChanges.present /\ AllProcessed)
        => leadChanges.count = FlipsSoFar

\* C34: in the persisted History of a game that is not Final, every scoring
\* play (which always generates a message) with order at most last_action
\* has a message in the record.
C34_LastActionCovered ==
    (disk.present /\ disk.status # "Final") =>
        \A n \in 1..Len(plays) :
            (n <= disk.last_action /\ plays[n].scoring_play)
                => \E k \in 1..Len(disk.messages) : disk.messages[k].action_number = n

\* C35: every message a live feed response returns is stored in the
\* game's in-memory History.
C35_ReturnedIsStored ==
    (obs.op = "live" /\ obs.code = 200 /\ hist.present) =>
        \A i \in 1..Len(obs.msgs) :
            \E k \in 1..Len(hist.messages) : hist.messages[k] = obs.msgs[i]

\* a response to a request with last_action = N > 0 holds only messages of
\* plays after N
OnlyNewer ==
    (obs.code = 200 /\ obs.la > 0)
        => \A k \in 1..Len(obs.msgs) : obs.msgs[k].action_number > obs.la

\* the last_action of a live response is the largest order of all plays
ReturnsMaxOrder ==
    (obs.op = "live" /\ obs.code = 200 /\ plays # <<>>)
        => obs.last_action = MaxOrder(plays)

TiesAt(n) ==
    Len(SelectSeq(obs.cand, LAMBDA m : m.type = "tie" /\ m.action_number = n))

\* the plays of the batch that reach or leave a tied score
TouchesTie(i) == DiffAt(CompareAt(i)) = 0 \/ DiffAt(obs.batch[i]) = 0

\* the plays of the batch at which the lead passes to the other side out of
\* a tied score: the play before evened the score, the side behind then scores
ThroughTie ==
    {i \in 2..Len(obs.batch) :
        /\ DiffAt(obs.batch[i - 1]) = 0
        /\ \/ DiffAt(CompareAt(i - 1)) > 0 /\ DiffAt(obs.batch[i]) < 0
           \/ DiffAt(CompareAt(i - 1)) < 0 /\ DiffAt(obs.batch[i]) > 0}

\* C37: a lead change is detected only between two consecutive plays whose
\* score differences have strictly opposite signs.  When the lead passes
\* from one side to the other through a tied score, a tie message fires at
\* the tie, no lead-change message fires at the tie or at the play after
\* it, and the lead-change count does not grow over those plays.
C37_ThroughTie ==
    obs.op = "live" =>
        /\ \A i \in 1..Len(obs.batch) :
             /\ LeadChangesAt(obs.batch[i]) > 0
                    => StrictFlip(DiffAt(CompareAt(i)), DiffAt(obs.batch[i]))
             /\ TouchesTie(i) => LeadChangesAt(obs.batch[i]) = 0
             /\ (DiffAt(obs.batch[i]) = 0 /\ DiffAt(CompareAt(i)) # 0)
                    => TiesAt(obs.batch[i]) = 1
        /\ (\A i \in 1..Len(obs.batch) : TouchesTie(i)) => obs.lcLoop = obs.lc0

\* a request processed a tie and then the basket that gave the other side
\* the lead, and counted no lead change
C37_Witness ==
    /\ obs.op = "live"
    /\ \E i \in ThroughTie :
          /\ TiesAt(obs.batch[i - 1]) = 1
          /\ LeadChangesAt(obs.batch[i]) = 0
    /\ obs.lcLoop = obs.lc0

\* the plays of the batch that set a new largest lead of the game, of at
\* least the announced size
NewLargestInBatch ==
    {i \in 1..Len(obs.batch) :
        /\ Abs(DiffAt(obs.batch[i])) >= LargestLeadMin
        /\ \A n \in 1..(obs.batch[i] - 1) :
              \/ Abs(DiffAt(n)) < Abs(DiffAt(obs.batch[i]))
              \/ (DiffAt(n) > 0) # (DiffAt(obs.batch[i]) > 0)}

\* C38: on a request that triggers the full-history recomputation of the
\* largest leads (a fresh load with last_action = 0, or the first request
\* after a restart) the largest-lead values include every play of the batch
\* before the messages are generated, so no play of the batch yields a
\* largest_lead message.
C38_NoLargestLeadOnRebuild ==
    [][(/\ obs'.op = "live"
        /\ plays # <<>>
        /\ (obs'.la = 0 \/ ~largestLeads.present))
          => /\ LargestLeadMsgs' = {}
             /\ \A n \in 1..Len(plays) :
                   /\ largestLeads'.home >= plays[n].home_score - plays[n].away_score
                   /\ largestLeads'.away >= plays[n].away_score - plays[n].home_score]_vars

\* the first request after a restart, an incremental one, processed a play
\* that set a new largest lead of 5 or more and announced nothing
C38_Witness ==
    /\ obs.op = "live"
    /\ obs.la >= 1
    /\ obs.fresh
    /\ NewLargestInBatch # {}
    /\ LargestLeadMsgs = {}

\* the ids of a list of games
IdsOf(games) == {games[i] : i \in 1..Len(games)}

\* C39: after any sequence of update_recent_games calls (a repeat of final
\* processing for the same game included) the recent-games list holds at
\* most 10 entries and no two entries with the same game id; a call for a
\* game id already present changes nothing and returns False.
C39_RecentGames ==
    /\ Len(recent.games) <= RecentLimit
    /\ \A i, j \in 1..Len(recent.games) :
          recent.games[i] = recent.games[j] => i = j
    /\ recent.id \in IdsOf(recent.before)
          => /\ recent.ret = FALSE
             /\ recent.games = recent.before

\* the list is full, its first game has been dropped, and the call just
\* made was for a game already in the list
C39_Witness ==
    /\ Len(recent.games) = RecentLimit
    /\ 1 \notin IdsOf(recent.games)
    /\ recent.id \in IdsOf(recent.before)
    /\ recent.ret = FALSE

====
